---------------------------- MODULE Spec2Model ----------------------------
(***************************************************************************)
(* A model of android/apex.go (package android of Soong): the per-module   *)
(* accumulation of APEX variations (BuildForApex), their merging           *)
(* (mergeApexVariations), the variant mutation (CreateApexVariations), the *)
(* global module -> APEX registry (UpdateApexDependency and its queries)   *)
(* and the SDK version resolver (ChooseSdkVersion).                        *)
(*                                                                         *)
(* Go strings are modelled as sequences of one-character strings so that   *)
(* concatenation, decimal formatting and the byte-wise "<" of Go strings   *)
(* are computed and not assumed.                                           *)
(***************************************************************************)
EXTENDS Integers, Sequences, FiniteSets, TLC

(***************************************************************************)
(* Bounds of the model.                                                    *)
(***************************************************************************)
\* longest sequence of ApexInfo handed to mergeApexVariations
MaxReqs == 3
\* number of goroutines calling into one module / into the registry
NumThreads == 2
\* longest versionList handed to ChooseSdkVersion
MaxVersions == 3
\* longest apex_available list handed to CheckAvailableForApex
MaxAvailable == 2
\* most direct dependencies of the module UpdateUniqueApexVariationsForDeps runs on
MaxDeps == 2

(***************************************************************************)
(* Strings.                                                                *)
(***************************************************************************)
\* The characters used, in increasing byte order (ASCII: digits < '_' < a-z).
Alphabet ==
    << "0", "1", "2", "3", "4", "5", "6", "7", "8", "9", "_",
       "a", "b", "c", "e", "m", "n", "p", "r", "s", "t", "u", "x" >>

Ord(c) == CHOOSE i \in 1..Len(Alphabet) : Alphabet[i] = c

\* Go's s < t on strings: byte-wise lexicographic order.
RECURSIVE StrLess(_, _)
StrLess(s, t) ==
    IF t = <<>> THEN FALSE
    ELSE IF s = <<>> THEN TRUE
    ELSE IF Head(s) = Head(t) THEN StrLess(Tail(s), Tail(t))
    ELSE Ord(Head(s)) < Ord(Head(t))

Digits == << "0", "1", "2", "3", "4", "5", "6", "7", "8", "9" >>

\* strconv.Itoa for n >= 0
RECURSIVE Itoa(_)
Itoa(n) ==
    IF n < 10 THEN << Digits[n + 1] >>
    ELSE Itoa(n \div 10) \o << Digits[(n % 10) + 1] >>

IsDigit(c) == \E i \in 1..10 : Digits[i] = c

DigitVal(c) == (CHOOSE i \in 1..10 : Digits[i] = c) - 1

IsNumber(s) == Len(s) > 0 /\ \A i \in 1..Len(s) : IsDigit(s[i])

RECURSIVE Atoi(_)
Atoi(s) ==
    IF s = <<>> THEN 0
    ELSE 10 * Atoi(SubSeq(s, 1, Len(s) - 1)) + DigitVal(s[Len(s)])

\* the elements of a sequence
Range(s) == { s[i] : i \in 1..Len(s) }

InList(x, list) == x \in Range(list)

\* all sequences over S of length at most n
SeqUpTo(S, n) == UNION { [1..k -> S] : k \in 0..n }

(***************************************************************************)
(* ApexInfo and the names used.                                            *)
(***************************************************************************)
b1 == << "b", "1" >>
b2 == << "b", "2" >>
b3 == << "b", "3" >>

\* names of APEX bundles (module names, never empty)
Bundles == { b1, b2, b3 }

NextBundle(n) == IF n = b1 THEN b2 ELSE IF n = b2 THEN b3 ELSE b1

MinSdkVersionStrs == { << "2", "9" >>, << "3", "0" >> }

\* SdkRefs: sequences of (Name, Version)
SdkRefsChoices == { <<>>, << [Name |-> << "s" >>, Version |-> << "1" >>] >> }

\* what an ApexInfo holds besides its name: MinSdkVersionStr, Updatable,
\* RequiredSdks, and whether InApexes lists a second bundle
ApexInfoContents ==
    [v : MinSdkVersionStrs, u : BOOLEAN, r : SdkRefsChoices, w : BOOLEAN]

ApexInfoOf(n, c) ==
    [ApexVariationName |-> n, MinSdkVersionStr |-> c.v, Updatable |-> c.u,
     RequiredSdks |-> c.r,
     InApexes |-> IF c.w THEN << n, NextBundle(n) >> ELSE << n >>]

\* The ApexInfo values handed to BuildForApex, mergeApexVariations and
\* UpdateApexDependency: InApexes is the bundle itself, or the bundle and one more.
ApexInfos == { ApexInfoOf(n, c) : n \in Bundles, c \in ApexInfoContents }

FutureApiLevelInt == 10000

\* ApiLevelOrPanic(ctx, MinSdkVersionStr).FinalOrFutureInt(): the numeric form
\* of the level; "current" is the future level.
FinalOrFutureInt(str) ==
    IF IsNumber(str) THEN Atoi(str) ELSE FutureApiLevelInt

RECURSIVE SdkSuffix(_)
SdkSuffix(sdks) ==
    IF sdks = <<>> THEN <<>>
    ELSE << "_" >> \o Head(sdks).Name \o << "_" >> \o Head(sdks).Version
         \o SdkSuffix(Tail(sdks))

mergedName(i) ==
    << "a", "p", "e", "x" >> \o Itoa(FinalOrFutureInt(i.MinSdkVersionStr))
        \o SdkSuffix(i.RequiredSdks)


(***************************************************************************)
(* State.                                                                  *)
(***************************************************************************)
VARIABLES
    \* a call of mergeApexVariations: the caller's slice, the two results,
    \* the number of calls made, and the merged result of the call before
    mIn, mMerged, mAliases, mCalls, mPrev

VARIABLES
    \* apexNamesMap(): module name -> (APEX name -> directly depended on)
    registry,
    \* apexNamesMapMutex: the goroutine holding it, or NoThread
    apexNamesMapMutex,
    \* where each goroutine is in a registry operation
    rpc,
    \* ClearApexDependency: the keys its range loop has still to visit
    clearLeft,
    \* the value the last registry query returned
    ret

VARIABLES
    \* ApexModuleBase of one module: apexVariations and apexVariationsLock
    \* (the goroutine holding it, or NoThread)
    apexVariations, apexVariationsLock,
    \* where each goroutine is in BuildForApex, and the ApexInfo it was given
    bpc, barg,
    \* the variation names BuildForApex has been called with
    requested,
    \* the phase of the build: "collect" (BuildForApex may be called),
    \* "mutate" (CreateApexVariations is due), "done"
    phase,
    \* what the module's UniqueApexVariations() returns
    uniqueApexVariations,
    \* ApexProperties.UniqueApexVariationsForDeps and .Apex_available
    UniqueApexVariationsForDeps, Apex_available,
    \* the mutator context handed to CreateApexVariations: Host(),
    \* Config().AllowMissingDependencies(), and the calls made on it, in order
    mctxHost, mctxAllowMissing, mctxLog,
    \* what CreateApexVariations returned: Nil or the variants, each with its
    \* ApexProperties.Info and whether MakeUninstallable was called on it
    modules

mergeVars == << mIn, mMerged, mAliases, mCalls, mPrev >>

regVars == << registry, apexNamesMapMutex, rpc, clearLeft, ret >>

buildVars ==
    << apexVariations, apexVariationsLock, bpc, barg, requested, phase,
       uniqueApexVariations, UniqueApexVariationsForDeps, Apex_available,
       mctxHost, mctxAllowMissing, mctxLog, modules >>

\* a call of ChooseSdkVersion: whether it was made, its versionList and
\* maxSdkVersion, and the (string, error) it returned
VARIABLES cCalled, cVersionList, cMaxSdkVersion, cRet

chooseVars == << cCalled, cVersionList, cMaxSdkVersion, cRet >>

\* a call of CheckAvailableForApex: whether it was made, its arguments what
\* and apex_available, and the bool it returned
VARIABLES aCalled, aWhat, aApexAvailable, aRet

availVars == << aCalled, aWhat, aApexAvailable, aRet >>

VARIABLES
    \* the direct dependencies of the module, as UpdateUniqueApexVariationsForDeps
    \* visits them, and whether it has been called
    directDeps, uCalled

uniqueVars == << directDeps, uCalled >>

VARIABLES
    \* a call of CheckMinSdkVersion: what ctx answers (Host, EMMA_INSTRUMENT,
    \* NativeCoverageEnabled, ClangCoverageEnabled), the minSdkVersion argument,
    \* and the payload dependencies of m
    wCtx, wMinSdkVersion, wGraph,
    \* where the call is, the edges WalkPayloadDeps has still to hand to the
    \* callback, the modules it has descended into, the callback invocations
    \* and the OtherModuleErrorf calls so far
    wpc, wPending, wWalked, wCalls, wErrors

walkVars ==
    << wCtx, wMinSdkVersion, wGraph, wpc, wPending, wWalked, wCalls, wErrors >>

\* the state of the operations that are modelled on their own
\* the modules of a dependency chain: for each its apexVariations, whether its
\* type declares UniqueApexVariations, its UniqueApexVariationsForDeps flag, its
\* direct dependencies, how far the mutators have got with it and the labels
\* CreateApexVariations made for it
VARIABLES chain

chainVars == << chain >>

restVars == << availVars, uniqueVars, walkVars, chainVars >>

vars == << mergeVars, regVars, buildVars, chooseVars, restVars >>

\* what the operations of one part leave alone
notRegVars == << mergeVars, buildVars, chooseVars, restVars >>

notMergeVars == << regVars, buildVars, chooseVars, restVars >>

notBuildVars == << mergeVars, regVars, chooseVars, restVars >>

notChooseVars == << mergeVars, regVars, buildVars, restVars >>

notAvailVars ==
    << mergeVars, regVars, buildVars, chooseVars, uniqueVars, walkVars, chainVars >>

notWalkVars ==
    << mergeVars, regVars, buildVars, chooseVars, availVars, uniqueVars, chainVars >>

notChainVars ==
    << mergeVars, regVars, buildVars, chooseVars, availVars, uniqueVars, walkVars >>

\* the goroutines that call into a module or into the registry
Threads == 1..NumThreads

\* an unlocked sync.Mutex has no holder
NoThread == 0

(***************************************************************************)
(* ChooseSdkVersion.                                                       *)
(***************************************************************************)
\* the version strings in a versionList; the last one is no API level
Versions == { << "1" >>, << "5" >>, << "9" >>, << "1", "1" >>, << "x" >> }

\* the maxSdkVersion levels
MaxSdkVersions == { 0, 10 }

\* ApiLevelFromUser(ctx, version) returns no error
Parses(version) == IsNumber(version)

\* the level ApiLevelFromUser(ctx, version) returns, as a number
LevelOf(version) == Atoi(version)

NoError == "nil"

\* the loop of ChooseSdkVersion from iteration i on
RECURSIVE ChooseSdkVersionFrom(_, _, _)
ChooseSdkVersionFrom(versionList, maxSdkVersion, i) ==
    IF i >= Len(versionList)
    THEN [version |-> << >>, err |-> "not found a version"]
    ELSE LET version == versionList[Len(versionList) - i]
         IN  IF ~Parses(version)
             THEN [version |-> << >>, err |-> "ApiLevelFromUser"]
             ELSE IF LevelOf(version) <= maxSdkVersion
                  THEN [version |-> version, err |-> NoError]
                  ELSE ChooseSdkVersionFrom(versionList, maxSdkVersion, i + 1)

ChooseSdkVersion(versionList, maxSdkVersion) ==
    ChooseSdkVersionFrom(versionList, maxSdkVersion, 0)

ChooseIdle ==
    /\ cCalled = FALSE
    /\ cVersionList = << >>
    /\ cMaxSdkVersion = 0
    /\ cRet = [version |-> << >>, err |-> NoError]

(***************************************************************************)
(* Availability.                                                           *)
(***************************************************************************)
AvailableToPlatform == << "/", "/", "a", "p", "e", "x", "_", "a", "v", "a", "i", "l", "a", "b", "l", "e", ":", "p", "l", "a", "t", "f", "o", "r", "m" >>

AvailableToAnyApex == << "/", "/", "a", "p", "e", "x", "_", "a", "v", "a", "i", "l", "a", "b", "l", "e", ":", "a", "n", "y", "a", "p", "e", "x" >>

AvailableToGkiApex == << "c", "o", "m", ".", "a", "n", "d", "r", "o", "i", "d", ".", "g", "k", "i", ".", "*" >>

GkiPrefix == << "c", "o", "m", ".", "a", "n", "d", "r", "o", "i", "d", ".", "g", "k", "i", "." >>

\* strings.HasPrefix
HasPrefix(str, prefix) ==
    Len(str) >= Len(prefix) /\ SubSeq(str, 1, Len(prefix)) = prefix

\* CheckAvailableForApex without the test that what is not the platform
CheckAvailableForApexAnyApexIsAll(what, apex_available) ==
    IF Len(apex_available) = 0
    THEN what = AvailableToPlatform
    ELSE \/ InList(what, apex_available)
         \/ InList(AvailableToAnyApex, apex_available)
         \/ (HasPrefix(what, GkiPrefix) /\ InList(AvailableToGkiApex, apex_available))

CheckAvailableForApex(what, apex_available) ==
    IF Len(apex_available) = 0
    THEN what = AvailableToPlatform
    ELSE \/ InList(what, apex_available)
         \/ (what # AvailableToPlatform /\ InList(AvailableToAnyApex, apex_available))
         \/ (HasPrefix(what, GkiPrefix) /\ InList(AvailableToGkiApex, apex_available))

\* a name in apex_available that names no module
noSuchApex == << "x" >>

\* mctx.OtherModuleExists(n): the bundles are modules of the build
OtherModuleExists(n) == n \in Bundles

\* the apex_available properties a module is given
ApexAvailableChoices ==
    { << >>, << AvailableToPlatform >>, << AvailableToAnyApex >>,
      << b1 >>, << noSuchApex, b1, noSuchApex >> }

\* a nil slice
Nil == << >>

\* the zero ApexInfo: ApexProperties.Info of a module not yet mutated
ZeroApexInfo ==
    [ApexVariationName |-> << >>, MinSdkVersionStr |-> << >>, Updatable |-> FALSE,
     RequiredSdks |-> << >>, InApexes |-> << >>]

\* a module on which BuildForApex has not been called and that has not been mutated
BuildIdle ==
    /\ apexVariations = << >>
    /\ apexVariationsLock = NoThread
    /\ bpc = [t \in Threads |-> "idle"]
    /\ barg = [t \in Threads |-> ZeroApexInfo]
    /\ requested = {}
    /\ phase = "collect"
    /\ uniqueApexVariations = FALSE
    /\ UniqueApexVariationsForDeps = FALSE
    /\ Apex_available = << >>
    /\ mctxHost = FALSE
    /\ mctxAllowMissing = FALSE
    /\ mctxLog = << >>
    /\ modules = Nil

\* CheckAvailableForApex not called
AvailIdle ==
    /\ aCalled = FALSE
    /\ aWhat = << >>
    /\ aApexAvailable = << >>
    /\ aRet = FALSE

\* a module without dependencies on which UpdateUniqueApexVariationsForDeps
\* has not been called
UniqueIdle ==
    /\ directDeps = << >>
    /\ uCalled = FALSE

\* CheckMinSdkVersion not called
WalkIdle ==
    /\ wCtx = [Host |-> FALSE, EMMA_INSTRUMENT |-> FALSE,
               NativeCoverageEnabled |-> FALSE, ClangCoverageEnabled |-> FALSE]
    /\ wMinSdkVersion = 0
    /\ wGraph = << >>
    /\ wpc = "idle"
    /\ wPending = << >>
    /\ wWalked = {}
    /\ wCalls = << >>
    /\ wErrors = << >>

\* no dependency chain
ChainIdle == chain = << >>

RestIdle == AvailIdle /\ UniqueIdle /\ WalkIdle /\ ChainIdle

(***************************************************************************)
(* The global registry of APEX dependencies.                               *)
(***************************************************************************)
m1 == << "m", "1" >>
m2 == << "m", "2" >>

ModuleNames == { m1, m2 }

\* The ApexInfo values handed to UpdateApexDependency, which reads only
\* ApexVariationName and InApexes: a bundle alone, or a variation that stands
\* for both bundles.
RegistryInfos ==
    { a \in ApexInfos :
        /\ a.MinSdkVersionStr = << "2", "9" >>
        /\ ~a.Updatable
        /\ a.RequiredSdks = << >>
        /\ Range(a.InApexes) \subseteq { b1, b2 } }

\* make(map[string]bool), make(map[string]map[string]bool)
EmptyMap == << >>

\* m[k] of a Go map[string]bool: false for a missing key
MapGet(m, k) == IF k \in DOMAIN m THEN m[k] ELSE FALSE

\* m[k] = v
MapPut(m, k, v) == [x \in (DOMAIN m) \cup {k} |-> IF x = k THEN v ELSE m[x]]

\* a delete that leaves the key in the map
MapDeleteNothing(m, k) == m

\* delete(m, k)
MapDelete(m, k) == [x \in (DOMAIN m) \ {k} |-> m[x]]

\* the loop over apex.InApexes of UpdateApexDependency
RECURSIVE UpdateInApexes(_, _, _, _)
UpdateInApexes(apexesForModule, apex, rest, directDep) ==
    IF rest = <<>> THEN apexesForModule
    ELSE UpdateInApexes(
            MapPut(apexesForModule, Head(rest),
                   MapGet(apexesForModule, apex.ApexVariationName) \/ directDep),
            apex, Tail(rest), directDep)

\* the registry after UpdateApexDependency(apex, moduleName, directDep)
UpdatedRegistry(reg, apex, moduleName, directDep) ==
    LET apexesForModule ==
            IF moduleName \in DOMAIN reg THEN reg[moduleName] ELSE EmptyMap
        own == MapPut(apexesForModule, apex.ApexVariationName,
                      MapGet(apexesForModule, apex.ApexVariationName) \/ directDep)
    IN  [x \in (DOMAIN reg) \cup {moduleName} |->
            IF x = moduleName
            THEN UpdateInApexes(own, apex, apex.InApexes, directDep)
            ELSE reg[x]]

DirectlyInApex(reg, apexName, moduleName) ==
    IF moduleName \in DOMAIN reg THEN MapGet(reg[moduleName], apexName) ELSE FALSE

DirectlyInAllApexes(reg, apexNames, moduleName) ==
    \A i \in 1..Len(apexNames) :
        MapGet(IF moduleName \in DOMAIN reg THEN reg[moduleName] ELSE EmptyMap,
               apexNames[i])

DirectlyInAnyApex(reg, host, moduleName) ==
    IF host THEN FALSE
    ELSE /\ moduleName \in DOMAIN reg
         /\ \E an \in DOMAIN reg[moduleName] : reg[moduleName][an]

InAnyApex(reg, moduleName) ==
    moduleName \in DOMAIN reg /\ Cardinality(DOMAIN reg[moduleName]) > 0

\* GetApexesForModule returns the keys in the order the map iteration yields
\* them, which Go leaves unspecified: every enumeration is a possible result.
GetApexesForModule(reg, moduleName) ==
    LET keys == IF moduleName \in DOMAIN reg THEN DOMAIN reg[moduleName] ELSE {}
    IN  { l \in [1..Cardinality(keys) -> keys] : Range(l) = keys }

\* apexNamesMapMutex.Lock() can return
CanLock == apexNamesMapMutex = NoThread

\* apexNamesMapMutex.Lock() at the start of operation op
RegistryLock(t, op) ==
    /\ rpc[t] = "idle"
    /\ CanLock
    /\ apexNamesMapMutex' = t
    /\ rpc' = [rpc EXCEPT ![t] = op]

\* the deferred apexNamesMapMutex.Unlock() and the return
RegistryReturn(t) ==
    /\ apexNamesMapMutex' = NoThread
    /\ rpc' = [rpc EXCEPT ![t] = "idle"]

UpdateApexDependency_Lock(t) ==
    /\ RegistryLock(t, "UpdateApexDependency")
    /\ UNCHANGED << registry, clearLeft, ret, notRegVars >>

UpdateApexDependency(t) ==
    /\ rpc[t] = "UpdateApexDependency"
    /\ \E apex \in RegistryInfos, moduleName \in ModuleNames, directDep \in BOOLEAN :
        registry' = UpdatedRegistry(registry, apex, moduleName, directDep)
    /\ RegistryReturn(t)
    /\ UNCHANGED << clearLeft, ret, notRegVars >>

DirectlyInApex_Lock(t) ==
    /\ RegistryLock(t, "DirectlyInApex")
    /\ UNCHANGED << registry, clearLeft, ret, notRegVars >>

DirectlyInApex_Return(t) ==
    /\ rpc[t] = "DirectlyInApex"
    /\ \E apexName \in Bundles, moduleName \in ModuleNames :
        ret' = DirectlyInApex(registry, apexName, moduleName)
    /\ RegistryReturn(t)
    /\ UNCHANGED << registry, clearLeft, notRegVars >>

DirectlyInAllApexes_Lock(t) ==
    /\ RegistryLock(t, "DirectlyInAllApexes")
    /\ UNCHANGED << registry, clearLeft, ret, notRegVars >>

DirectlyInAllApexes_Return(t) ==
    /\ rpc[t] = "DirectlyInAllApexes"
    /\ \E apexNames \in SeqUpTo(Bundles, 2), moduleName \in ModuleNames :
        ret' = DirectlyInAllApexes(registry, apexNames, moduleName)
    /\ RegistryReturn(t)
    /\ UNCHANGED << registry, clearLeft, notRegVars >>

\* DirectlyInAnyApex in a host context returns before taking the lock
DirectlyInAnyApex_Host(t) ==
    /\ rpc[t] = "idle"
    /\ \E moduleName \in ModuleNames :
        ret' = DirectlyInAnyApex(registry, TRUE, moduleName)
    /\ UNCHANGED << registry, apexNamesMapMutex, rpc, clearLeft, notRegVars >>

DirectlyInAnyApex_Lock(t) ==
    /\ RegistryLock(t, "DirectlyInAnyApex")
    /\ UNCHANGED << registry, clearLeft, ret, notRegVars >>

DirectlyInAnyApex_Return(t) ==
    /\ rpc[t] = "DirectlyInAnyApex"
    /\ \E moduleName \in ModuleNames :
        ret' = DirectlyInAnyApex(registry, FALSE, moduleName)
    /\ RegistryReturn(t)
    /\ UNCHANGED << registry, clearLeft, notRegVars >>

InAnyApex_Lock(t) ==
    /\ RegistryLock(t, "InAnyApex")
    /\ UNCHANGED << registry, clearLeft, ret, notRegVars >>

InAnyApex_Return(t) ==
    /\ rpc[t] = "InAnyApex"
    /\ \E moduleName \in ModuleNames : ret' = InAnyApex(registry, moduleName)
    /\ RegistryReturn(t)
    /\ UNCHANGED << registry, clearLeft, notRegVars >>

GetApexesForModule_Lock(t) ==
    /\ RegistryLock(t, "GetApexesForModule")
    /\ UNCHANGED << registry, clearLeft, ret, notRegVars >>

GetApexesForModule_Return(t) ==
    /\ rpc[t] = "GetApexesForModule"
    /\ \E moduleName \in ModuleNames :
        ret' \in GetApexesForModule(registry, moduleName)
    /\ RegistryReturn(t)
    /\ UNCHANGED << registry, clearLeft, notRegVars >>

\* ClearApexDependency takes no lock: m := apexNamesMap(), then the range loop
\* starts over the keys present.
ClearApexDependency_Begin(t) ==
    /\ rpc[t] = "idle"
    /\ rpc' = [rpc EXCEPT ![t] = "ClearApexDependency"]
    /\ clearLeft' = [clearLeft EXCEPT ![t] = DOMAIN registry]
    /\ UNCHANGED << registry, apexNamesMapMutex, ret, notRegVars >>

\* one iteration: delete(m, k). A key put into the map during the loop may or
\* may not be visited.
ClearApexDependency_Delete(t) ==
    /\ rpc[t] = "ClearApexDependency"
    /\ clearLeft[t] \cap DOMAIN registry # {}
    /\ \E k \in DOMAIN registry :
        /\ registry' = MapDelete(registry, k)
        /\ clearLeft' = [clearLeft EXCEPT ![t] = @ \ {k}]
    /\ UNCHANGED << apexNamesMapMutex, rpc, ret, notRegVars >>

ClearApexDependency_Return(t) ==
    /\ rpc[t] = "ClearApexDependency"
    /\ clearLeft[t] \cap DOMAIN registry = {}
    /\ rpc' = [rpc EXCEPT ![t] = "idle"]
    /\ clearLeft' = [clearLeft EXCEPT ![t] = {}]
    /\ UNCHANGED << registry, apexNamesMapMutex, ret, notRegVars >>

\* the registry as apexData.Once creates it, with no operation running
RegistryIdle ==
    /\ registry = EmptyMap
    /\ apexNamesMapMutex = NoThread
    /\ rpc = [t \in Threads |-> "idle"]
    /\ clearLeft = [t \in Threads |-> {}]
    /\ ret = FALSE

MergeIdle ==
    /\ mIn = << >>
    /\ mMerged = << >>
    /\ mAliases = << >>
    /\ mCalls = 0
    /\ mPrev = << >>

InitRegistry == RegistryIdle /\ MergeIdle /\ BuildIdle /\ ChooseIdle /\ RestIdle

\* a step of goroutine t in a registry operation
RegistryOperation(t) ==
    \/ UpdateApexDependency_Lock(t)
    \/ UpdateApexDependency(t)
    \/ DirectlyInApex_Lock(t)
    \/ DirectlyInApex_Return(t)
    \/ DirectlyInAllApexes_Lock(t)
    \/ DirectlyInAllApexes_Return(t)
    \/ DirectlyInAnyApex_Host(t)
    \/ DirectlyInAnyApex_Lock(t)
    \/ DirectlyInAnyApex_Return(t)
    \/ InAnyApex_Lock(t)
    \/ InAnyApex_Return(t)
    \/ GetApexesForModule_Lock(t)
    \/ GetApexesForModule_Return(t)
    \/ ClearApexDependency_Begin(t)
    \/ ClearApexDependency_Delete(t)
    \/ ClearApexDependency_Return(t)

NextRegistry == \E t \in Threads : RegistryOperation(t)

SpecRegistry == InitRegistry /\ [][NextRegistry]_vars

\* The registry used by one goroutine: every operation returns before the
\* next one is called, as between two build passes.
NextRegistrySequential == RegistryOperation(1)

SpecRegistrySequential == InitRegistry /\ [][NextRegistrySequential]_vars

(***************************************************************************)
(* byApexName and mergeApexVariations.                                     *)
(***************************************************************************)
\* byApexName.Less
\* a comparison that orders no two requirements
LessNothing(a, b) == FALSE

Less(a, b) == StrLess(a.ApexVariationName, b.ApexVariationName)

IsSortedByApexName(s) == \A i \in 1..(Len(s) - 1) : ~Less(s[i + 1], s[i])

\* a sort that leaves the slice as it is
SortOutcomesUnsorted(s) == { s }

\* sort.Sort(byApexName(s)): sort.Sort is not stable, so every permutation of s
\* that is ordered by name is a possible outcome (exactly one when the names
\* are pairwise distinct).
SortOutcomes(s) ==
    { t \in { [i \in 1..Len(s) |-> s[p[i]]] : p \in Permutations(1..Len(s)) } :
        IsSortedByApexName(t) }

CopyOf(list) == [i \in 1..Len(list) |-> list[i]]

\* MergeIter with the alias forgotten when the variation is folded into an
\* existing entry.
MergeIterNoAliasOnFold(st, apexInfo) ==
    LET apexName == apexInfo.ApexVariationName
        mName == mergedName(apexInfo)
    IN  IF mName \in DOMAIN st.seen
        THEN LET index == st.seen[mName]
             IN  [st EXCEPT
                    !.merged[index].InApexes = Append(@, apexName),
                    !.merged[index].Updatable = @ \/ apexInfo.Updatable]
        ELSE [seen |-> st.seen @@ (mName :> Len(st.merged) + 1),
              merged |-> Append(st.merged,
                            [apexInfo EXCEPT !.ApexVariationName = mergedName(apexInfo),
                                             !.InApexes = CopyOf(@)]),
              aliases |-> Append(st.aliases, << apexName, mName >>)]

\* MergeIter with the new entry keeping its original variation name.
MergeIterKeepName(st, apexInfo) ==
    LET apexName == apexInfo.ApexVariationName
        mName == mergedName(apexInfo)
    IN  IF mName \in DOMAIN st.seen
        THEN LET index == st.seen[mName]
             IN  [st EXCEPT
                    !.merged[index].InApexes = Append(@, apexName),
                    !.merged[index].Updatable = @ \/ apexInfo.Updatable,
                    !.aliases = Append(@, << apexName, mName >>)]
        ELSE [seen |-> st.seen @@ (mName :> Len(st.merged) + 1),
              merged |-> Append(st.merged, [apexInfo EXCEPT !.InApexes = CopyOf(@)]),
              aliases |-> Append(st.aliases, << apexName, mName >>)]

\* MergeIter that keeps the Updatable of the first requirement of a group
MergeIterFirstUpdatable(st, apexInfo) ==
    LET apexName == apexInfo.ApexVariationName
        mName == mergedName(apexInfo)
    IN  IF mName \in DOMAIN st.seen
        THEN LET index == st.seen[mName]
             IN  [st EXCEPT
                    !.merged[index].InApexes = Append(@, apexName),
                    !.aliases = Append(@, << apexName, mName >>)]
        ELSE [seen |-> st.seen @@ (mName :> Len(st.merged) + 1),
              merged |-> Append(st.merged,
                            [apexInfo EXCEPT !.ApexVariationName = mergedName(apexInfo),
                                             !.InApexes = CopyOf(@)]),
              aliases |-> Append(st.aliases, << apexName, mName >>)]

\* One iteration of the loop of mergeApexVariations; st holds seen, merged and
\* aliases (indices are 1-based here).
MergeIter(st, apexInfo) ==
    LET apexName == apexInfo.ApexVariationName
        mName == mergedName(apexInfo)
    IN  IF mName \in DOMAIN st.seen
        THEN LET index == st.seen[mName]
             IN  [st EXCEPT
                    !.merged[index].InApexes = Append(@, apexName),
                    !.merged[index].Updatable = @ \/ apexInfo.Updatable,
                    !.aliases = Append(@, << apexName, mName >>)]
        ELSE [seen |-> st.seen @@ (mName :> Len(st.merged) + 1),
              merged |-> Append(st.merged,
                            [apexInfo EXCEPT !.ApexVariationName = mergedName(apexInfo),
                                             !.InApexes = CopyOf(@)]),
              aliases |-> Append(st.aliases, << apexName, mName >>)]

RECURSIVE MergeLoop(_, _)
MergeLoop(st, rest) ==
    IF rest = <<>> THEN st
    ELSE MergeLoop(MergeIter(st, Head(rest)), Tail(rest))

\* mergeApexVariations on the slice as sort.Sort left it: (merged, aliases)
mergeApexVariations(sorted) ==
    LET st == MergeLoop([seen |-> << >>, merged |-> << >>, aliases |-> << >>], sorted)
    IN  [merged |-> st.merged, aliases |-> st.aliases]

(***************************************************************************)
(* BuildForApex and CreateApexVariations on one module.                    *)
(***************************************************************************)
\* The ApexInfo values BuildForApex is called with.
BuildInfos == { a \in ApexInfos : ~a.Updatable /\ a.RequiredSdks = << >> }

moduleVars ==
    << uniqueApexVariations, UniqueApexVariationsForDeps, Apex_available >>

mctxVars == << mctxHost, mctxAllowMissing, mctxLog, modules >>

\* a lock that never blocks
LockNeverBlocks == TRUE

\* m.apexVariationsLock.Lock() can return
CanLockApexVariations == apexVariationsLock = NoThread

\* BuildForApex(apex) is called and takes m.apexVariationsLock
BuildForApex_Lock(t) ==
    /\ phase = "collect"
    /\ bpc[t] = "idle"
    /\ CanLockApexVariations
    /\ \E apex \in BuildInfos :
        /\ barg' = [barg EXCEPT ![t] = apex]
        /\ requested' = requested \cup { apex.ApexVariationName }
    /\ apexVariationsLock' = t
    /\ bpc' = [bpc EXCEPT ![t] = "scan"]
    /\ UNCHANGED << apexVariations, phase, moduleVars, mctxVars, notBuildVars >>

\* the loop over m.apexVariations: return (and unlock) when the name is there
BuildForApex_Scan(t) ==
    /\ bpc[t] = "scan"
    /\ IF \E i \in 1..Len(apexVariations) :
            apexVariations[i].ApexVariationName = barg[t].ApexVariationName
       THEN /\ bpc' = [bpc EXCEPT ![t] = "idle"]
            /\ barg' = [barg EXCEPT ![t] = ZeroApexInfo]
            /\ apexVariationsLock' = NoThread
       ELSE /\ bpc' = [bpc EXCEPT ![t] = "append"]
            /\ UNCHANGED << barg, apexVariationsLock >>
    /\ UNCHANGED << apexVariations, requested, phase, moduleVars, mctxVars,
                    notBuildVars >>

\* m.apexVariations = append(m.apexVariations, apex), then the deferred Unlock
BuildForApex_Append(t) ==
    /\ bpc[t] = "append"
    /\ apexVariations' = Append(apexVariations, barg[t])
    /\ bpc' = [bpc EXCEPT ![t] = "idle"]
    /\ barg' = [barg EXCEPT ![t] = ZeroApexInfo]
    /\ apexVariationsLock' = NoThread
    /\ UNCHANGED << requested, phase, moduleVars, mctxVars, notBuildVars >>

\* The barrier between the mutator that calls BuildForApex and the one that
\* calls CreateApexVariations: every BuildForApex call has returned.
PhaseBarrier ==
    /\ phase = "collect"
    /\ \A t \in Threads : bpc[t] = "idle"
    /\ phase' = "mutate"
    /\ UNCHANGED << apexVariations, apexVariationsLock, bpc, barg, requested,
                    moduleVars, mctxVars, notBuildVars >>

Call(op, arg) == [op |-> op, arg |-> arg]

\* checkApexAvailableProperty: the PropertyErrorf calls, in order
\* checkApexAvailableProperty without the test of AllowMissingDependencies
checkApexAvailablePropertyStrict(apex_available, allowMissing) ==
    LET invalid == SelectSeq(apex_available,
                     LAMBDA n : /\ n # AvailableToPlatform
                                /\ n # AvailableToAnyApex
                                /\ n # AvailableToGkiApex
                                /\ ~OtherModuleExists(n))
    IN  [i \in 1..Len(invalid) |-> Call("PropertyErrorf", invalid[i])]

RECURSIVE checkApexAvailableProperty(_, _)
checkApexAvailableProperty(apex_available, allowMissing) ==
    IF apex_available = << >> THEN << >>
    ELSE LET n == Head(apex_available)
             rest == checkApexAvailableProperty(Tail(apex_available), allowMissing)
         IN  IF n = AvailableToPlatform \/ n = AvailableToAnyApex \/ n = AvailableToGkiApex
             THEN rest
             ELSE IF ~OtherModuleExists(n) /\ ~allowMissing
                  THEN << Call("PropertyErrorf", n) >> \o rest
                  ELSE rest

\* the labels handed to CreateVariations
Variations(apexVars) ==
    << << >> >> \o [i \in 1..Len(apexVars) |-> apexVars[i].ApexVariationName]

\* m.IsForPlatform(), on the ApexInfo of a variant
IsForPlatform(info) == info.ApexVariationName = << >>

\* Variants with MakeUninstallable also called for a host module
VariantsUninstallableOnHost(apexVars, host, apex_available) ==
    [i \in 1..(Len(apexVars) + 1) |->
        IF i = 1
        THEN [Info |-> ZeroApexInfo,
              uninstallable |->
                 ~CheckAvailableForApex(AvailableToPlatform, apex_available)]
        ELSE [Info |-> apexVars[i - 1], uninstallable |-> FALSE]]

\* Variants without the variant for the platform
VariantsNoPlatform(apexVars, host, apex_available) ==
    [i \in 1..Len(apexVars) |-> [Info |-> apexVars[i], uninstallable |-> FALSE]]

\* the variants after the loop over modules: mctx.CreateVariations returns one
\* copy of the module per label
Variants(apexVars, host, apex_available) ==
    [i \in 1..(Len(apexVars) + 1) |->
        IF i = 1
        THEN [Info |-> ZeroApexInfo,
              uninstallable |->
                 ~host /\ ~CheckAvailableForApex(AvailableToPlatform, apex_available)]
        ELSE [Info |-> apexVars[i - 1], uninstallable |-> FALSE]]

\* MctxCalls with the aliases registered before the variants are created
MctxCallsAliasesFirst(apexVars, aliases, host, allowMissing, apex_available) ==
    checkApexAvailableProperty(apex_available, allowMissing)
      \o << Call("SetDefaultDependencyVariation", << >>) >>
      \o [i \in 1..Len(aliases) |-> Call("CreateAliasVariation", aliases[i])]
      \o << Call("CreateVariations", Variations(apexVars)) >>
      \o (IF Variants(apexVars, host, apex_available)[1].uninstallable
          THEN << Call("MakeUninstallable", 1) >> ELSE << >>)

\* the calls CreateApexVariations makes on mctx, in order
MctxCalls(apexVars, aliases, host, allowMissing, apex_available) ==
    checkApexAvailableProperty(apex_available, allowMissing)
      \o << Call("SetDefaultDependencyVariation", << >>),
            Call("CreateVariations", Variations(apexVars)) >>
      \o (IF Variants(apexVars, host, apex_available)[1].uninstallable
          THEN << Call("MakeUninstallable", 1) >> ELSE << >>)
      \o [i \in 1..Len(aliases) |-> Call("CreateAliasVariation", aliases[i])]

HasApexVariationsAlways(apexVars) == TRUE

\* the test `len(m.apexVariations) > 0` of CreateApexVariations
HasApexVariations(apexVars) == Len(apexVars) > 0

ShouldMergeIgnoringDeps(unique, uniqueForDeps) == ~unique

\* the test `!mctx.Module().(ApexModule).UniqueApexVariations() &&
\* !m.ApexProperties.UniqueApexVariationsForDeps` of CreateApexVariations
ShouldMerge(unique, uniqueForDeps) == ~unique /\ ~uniqueForDeps

\* CreateApexVariations(mctx): the mutator that calls it runs on a module after
\* the one that calls UpdateUniqueApexVariationsForDeps
CreateApexVariations ==
    /\ phase = "mutate"
    /\ uCalled
    /\ phase' = "done"
    /\ IF HasApexVariations(apexVariations)
       THEN \E host \in BOOLEAN, allowMissing \in BOOLEAN :
              /\ mctxHost' = host
              /\ mctxAllowMissing' = allowMissing
              /\ IF ShouldMerge(uniqueApexVariations, UniqueApexVariationsForDeps)
                 THEN \E sortedIn \in SortOutcomes(apexVariations) :
                      \E sorted \in SortOutcomes(mergeApexVariations(sortedIn).merged) :
                        /\ apexVariations' = sortedIn
                        /\ modules' = Variants(sorted, host, Apex_available)
                        /\ mctxLog' = MctxCalls(sorted,
                                          mergeApexVariations(sortedIn).aliases,
                                          host, allowMissing, Apex_available)
                 ELSE \E sorted \in SortOutcomes(apexVariations) :
                        /\ apexVariations' = sorted
                        /\ modules' = Variants(sorted, host, Apex_available)
                        /\ mctxLog' = MctxCalls(sorted, << >>, host, allowMissing,
                                                Apex_available)
       ELSE /\ modules' = Nil
            /\ UNCHANGED << apexVariations, mctxHost, mctxAllowMissing, mctxLog >>
    /\ UNCHANGED << apexVariationsLock, bpc, barg, requested, moduleVars,
                    notBuildVars >>

(***************************************************************************)
(* The merge engine called on its own: the slices CreateApexVariations can *)
(* hand to it hold pairwise distinct variation names (BuildForApex).       *)
(***************************************************************************)
DistinctNames(s) ==
    \A i, j \in 1..Len(s) : i # j => s[i].ApexVariationName # s[j].ApexVariationName

\* the slices of exactly k ApexInfos with pairwise distinct variation names
MergeInputs(k) == { s \in [1..k -> ApexInfos] : DistinctNames(s) }

\* no slice with pairwise distinct names is longer than there are names
LongestInput ==
    IF MaxReqs < Cardinality(Bundles) THEN MaxReqs ELSE Cardinality(Bundles)

InitMerge ==
    /\ RegistryIdle
    /\ BuildIdle
    /\ ChooseIdle
    /\ RestIdle
    /\ \E k \in 0..LongestInput : mIn \in MergeInputs(k)
    /\ mMerged = << >>
    /\ mAliases = << >>
    /\ mCalls = 0
    /\ mPrev = << >>

\* merged, aliases := mergeApexVariations(ctx, mIn); the slice is sorted in place
MergeCall ==
    /\ mCalls = 0
    /\ \E sorted \in SortOutcomes(mIn) :
        /\ mIn' = sorted
        /\ mMerged' = mergeApexVariations(sorted).merged
        /\ mAliases' = mergeApexVariations(sorted).aliases
    /\ mCalls' = 1
    /\ mPrev' = mPrev
    /\ UNCHANGED notMergeVars

\* merged2, aliases2 := mergeApexVariations(ctx, merged)
MergeAgain ==
    /\ mCalls = 1
    /\ \E sorted \in SortOutcomes(mMerged) :
        /\ mIn' = sorted
        /\ mMerged' = mergeApexVariations(sorted).merged
        /\ mAliases' = mergeApexVariations(sorted).aliases
    /\ mCalls' = 2
    /\ mPrev' = mMerged
    /\ UNCHANGED notMergeVars

NextMerge == MergeCall \/ MergeAgain

SpecMerge == InitMerge /\ [][NextMerge]_vars

\* RequiredSdks values whose names and versions may hold the "_" that
\* mergedName puts between them
KeySdkRefs ==
    { << >>,
      << [Name |-> << "s" >>, Version |-> << "1" >>] >>,
      << [Name |-> << "s" >>, Version |-> << "1" >>],
         [Name |-> << "t" >>, Version |-> << "2" >>] >>,
      << [Name |-> << "s", "_", "1", "_", "t" >>, Version |-> << "2" >>] >>,
      << [Name |-> << "s" >>, Version |-> << "1", "_", "t", "_", "2" >>] >> }

\* the requirements of the bundles with these RequiredSdks
KeyInfos ==
    { [ApexVariationName |-> n, MinSdkVersionStr |-> v, Updatable |-> FALSE,
       RequiredSdks |-> r, InApexes |-> << n >>] :
        n \in Bundles, v \in MinSdkVersionStrs, r \in KeySdkRefs }

\* mergeApexVariations is about to be called on one or two such requirements
InitMergeKeys ==
    /\ RegistryIdle
    /\ BuildIdle
    /\ ChooseIdle
    /\ RestIdle
    /\ \E k \in 1..2 : mIn \in { s \in [1..k -> KeyInfos] : DistinctNames(s) }
    /\ mMerged = << >>
    /\ mAliases = << >>
    /\ mCalls = 0
    /\ mPrev = << >>

SpecMergeKeys == InitMergeKeys /\ [][NextMerge]_vars


(***************************************************************************)
(* The SDK version resolver called on its own.                             *)
(***************************************************************************)
InitChoose == RegistryIdle /\ MergeIdle /\ BuildIdle /\ ChooseIdle /\ RestIdle

\* m.ChooseSdkVersion(ctx, versionList, maxSdkVersion)
ChooseSdkVersionCall ==
    /\ \E k \in 0..MaxVersions :
       \E versionList \in [1..k -> Versions], maxSdkVersion \in MaxSdkVersions :
        /\ cVersionList' = versionList
        /\ cMaxSdkVersion' = maxSdkVersion
        /\ cRet' = ChooseSdkVersion(versionList, maxSdkVersion)
    /\ cCalled' = TRUE
    /\ UNCHANGED notChooseVars

NextChoose == ChooseSdkVersionCall

SpecChoose == InitChoose /\ [][NextChoose]_vars

(***************************************************************************)
(* CheckAvailableForApex called on its own.                                *)
(***************************************************************************)
\* the name of a GKI APEX
gkiFoo == GkiPrefix \o << "f", "o", "o" >>

\* the names asked about
AvailableWhats ==
    { AvailableToPlatform, AvailableToAnyApex, AvailableToGkiApex, b1, b2, gkiFoo }

\* the entries of an apex_available list
AvailableEntries ==
    { AvailableToPlatform, AvailableToAnyApex, AvailableToGkiApex, b1, gkiFoo }

InitAvail == RegistryIdle /\ MergeIdle /\ BuildIdle /\ ChooseIdle /\ RestIdle

\* CheckAvailableForApex(what, apex_available)
CheckAvailableForApexCall ==
    /\ \E k \in 0..MaxAvailable :
       \E what \in AvailableWhats, apex_available \in [1..k -> AvailableEntries] :
        /\ aWhat' = what
        /\ aApexAvailable' = apex_available
        /\ aRet' = CheckAvailableForApex(what, apex_available)
    /\ aCalled' = TRUE
    /\ UNCHANGED notAvailVars

NextAvail == CheckAvailableForApexCall

SpecAvail == InitAvail /\ [][NextAvail]_vars

(***************************************************************************)
(* UpdateUniqueApexVariationsForDeps on one module.                        *)
(***************************************************************************)
\* collectApexes: the InApexes lists of infos, one after the other
RECURSIVE collectApexes(_)
collectApexes(infos) ==
    IF infos = << >> THEN << >>
    ELSE Head(infos).InApexes \o collectApexes(Tail(infos))

\* sort.Strings: the one ordering of the strings of s by <
SortStrings(s) ==
    CHOOSE t \in { [i \in 1..Len(s) |-> s[p[i]]] : p \in Permutations(1..Len(s)) } :
        \A i \in 1..(Len(t) - 1) : ~StrLess(t[i + 1], t[i])

\* sort.Search over the 0-based indices [i, j) with f(h) == a[h] >= x
RECURSIVE SearchStringsBetween(_, _, _, _)
SearchStringsBetween(a, x, i, j) ==
    IF i < j
    THEN LET h == (i + j) \div 2
         IN  IF StrLess(a[h + 1], x)
             THEN SearchStringsBetween(a, x, h + 1, j)
             ELSE SearchStringsBetween(a, x, i, h)
    ELSE i

\* sort.SearchStrings(a, x): a 0-based index
SearchStrings(a, x) == SearchStringsBetween(a, x, 0, Len(a))

\* anyInSameApex comparing the variation names and not the InApexes lists
anyInSameApexByName(a, b) ==
    \E k \in 1..Len(a), l \in 1..Len(b) :
        a[k].ApexVariationName = b[l].ApexVariationName

\* anyInSameApex(a, b): some value of an InApexes list of a is found by the
\* binary search in the sorted values of the InApexes lists of b
anyInSameApex(a, b) ==
    LET aApexes == collectApexes(a)
        bApexes == SortStrings(collectApexes(b))
    IN  \E k \in 1..Len(aApexes) :
            LET index == SearchStrings(bApexes, aApexes[k])
            IN  index < Len(bApexes) /\ bApexes[index + 1] = aApexes[k]

\* VisitDirectDeps that looks at what the dependency declares and not at the
\* flag the dependency got from its own dependencies
RECURSIVE VisitDirectDepsDeclaredOnly(_, _, _)
VisitDirectDepsDeclaredOnly(flag, mVariations, deps) ==
    IF deps = << >> THEN flag
    ELSE LET dep == Head(deps)
         IN  VisitDirectDepsDeclaredOnly(
                IF /\ dep.isApexModule
                   /\ anyInSameApex(dep.apexVariations, mVariations)
                   /\ dep.UniqueApexVariations
                THEN TRUE ELSE flag,
                mVariations, Tail(deps))

\* mctx.VisitDirectDeps with the closure of UpdateUniqueApexVariationsForDeps:
\* the flag after the dependencies deps have been visited
RECURSIVE VisitDirectDeps(_, _, _)
VisitDirectDeps(flag, mVariations, deps) ==
    IF deps = << >> THEN flag
    ELSE LET dep == Head(deps)
         IN  VisitDirectDeps(
                IF /\ dep.isApexModule
                   /\ anyInSameApex(dep.apexVariations, mVariations)
                   /\ (dep.UniqueApexVariations \/ dep.UniqueApexVariationsForDeps)
                THEN TRUE ELSE flag,
                mVariations, Tail(deps))

\* m.UpdateUniqueApexVariationsForDeps(mctx)
UpdateUniqueApexVariationsForDeps ==
    /\ phase = "mutate"
    /\ UniqueApexVariationsForDeps' =
          VisitDirectDeps(UniqueApexVariationsForDeps, apexVariations, directDeps)
    /\ uCalled' = TRUE
    /\ UNCHANGED << directDeps, apexVariations, apexVariationsLock, bpc, barg,
                    requested, phase, uniqueApexVariations, Apex_available,
                    mctxVars, mergeVars, regVars, chooseVars, availVars, walkVars,
                    chainVars >>

\* The ApexInfo values of the modules here: they differ in name and InApexes.
UniqueInfos ==
    { a \in ApexInfos :
        /\ a.MinSdkVersionStr = << "2", "9" >>
        /\ ~a.Updatable
        /\ a.RequiredSdks = << >> }

\* an ApexInfo of UniqueInfos
UniqueInfo(n, w) ==
    ApexInfoOf(n, [v |-> << "2", "9" >>, u |-> FALSE, r |-> << >>, w |-> w])

\* the apexVariations of a dependency
DepVariations ==
    { << >>, << UniqueInfo(b1, FALSE) >>, << UniqueInfo(b2, TRUE) >>,
      << UniqueInfo(b3, FALSE), UniqueInfo(b1, TRUE) >> }

\* a direct dependency: a module that is no ApexModule, or an ApexModule with
\* its apexVariations, UniqueApexVariations() and UniqueApexVariationsForDeps
DirectDeps ==
    { [isApexModule |-> FALSE, apexVariations |-> << >>,
       UniqueApexVariations |-> FALSE, UniqueApexVariationsForDeps |-> FALSE] }
    \cup [isApexModule : { TRUE }, apexVariations : DepVariations,
          UniqueApexVariations : BOOLEAN, UniqueApexVariationsForDeps : BOOLEAN]

\* the module after the BuildForApex calls (at most two here), with its
\* direct dependencies
InitUnique ==
    /\ RegistryIdle /\ MergeIdle /\ ChooseIdle /\ AvailIdle /\ WalkIdle /\ ChainIdle
    /\ \E k \in 0..2 : apexVariations \in { s \in [1..k -> UniqueInfos] : DistinctNames(s) }
    /\ apexVariationsLock = NoThread
    /\ bpc = [t \in Threads |-> "idle"]
    /\ barg = [t \in Threads |-> ZeroApexInfo]
    /\ requested = { apexVariations[i].ApexVariationName : i \in 1..Len(apexVariations) }
    /\ phase = "mutate"
    /\ uniqueApexVariations = FALSE
    /\ UniqueApexVariationsForDeps \in BOOLEAN
    /\ Apex_available = << >>
    /\ mctxHost = FALSE
    /\ mctxAllowMissing = FALSE
    /\ mctxLog = << >>
    /\ modules = Nil
    /\ \E k \in 0..MaxDeps : directDeps \in [1..k -> DirectDeps]
    /\ uCalled = FALSE

NextUnique == UpdateUniqueApexVariationsForDeps

SpecUnique == InitUnique /\ [][NextUnique]_vars

(***************************************************************************)
(* One module through the build: the BuildForApex calls of the bundles,    *)
(* then UpdateUniqueApexVariationsForDeps, then CreateApexVariations.      *)
(***************************************************************************)
\* the direct dependencies of the module of Spec: none, or one module that
\* declares UniqueApexVariations and is required by bundle b1
ModuleDirectDeps ==
    { << >>,
      << [isApexModule |-> TRUE, apexVariations |-> << UniqueInfo(b1, FALSE) >>,
          UniqueApexVariations |-> TRUE, UniqueApexVariationsForDeps |-> FALSE] >> }

\* a module as InitApexModule leaves it, of any module type (UniqueApexVariations),
\* with any apex_available property and with its direct dependencies
Init ==
    /\ RegistryIdle
    /\ MergeIdle
    /\ ChooseIdle
    /\ AvailIdle
    /\ WalkIdle
    /\ ChainIdle
    /\ directDeps \in ModuleDirectDeps
    /\ uCalled = FALSE
    /\ apexVariations = << >>
    /\ apexVariationsLock = NoThread
    /\ bpc = [t \in Threads |-> "idle"]
    /\ barg = [t \in Threads |-> ZeroApexInfo]
    /\ requested = {}
    /\ phase = "collect"
    /\ uniqueApexVariations \in BOOLEAN
    /\ UniqueApexVariationsForDeps = FALSE
    /\ Apex_available \in ApexAvailableChoices
    /\ mctxHost = FALSE
    /\ mctxAllowMissing = FALSE
    /\ mctxLog = << >>
    /\ modules = Nil

Next ==
    \/ \E t \in Threads :
        \/ BuildForApex_Lock(t)
        \/ BuildForApex_Scan(t)
        \/ BuildForApex_Append(t)
    \/ PhaseBarrier
    \/ UpdateUniqueApexVariationsForDeps
    \/ CreateApexVariations

Spec == Init /\ [][Next]_vars

(***************************************************************************)
(* Three modules A, B and C, where A may depend on B and C and B on C: the *)
(* mutator that calls UpdateUniqueApexVariationsForDeps runs bottom-up     *)
(* over all of them, then the one that calls CreateApexVariations.         *)
(***************************************************************************)
ChainModules == { "A", "B", "C" }

\* a module of the chain before the mutators run
ChainModule(apexVars, unique, deps) ==
    [apexVariations |-> apexVars, UniqueApexVariations |-> unique,
     UniqueApexVariationsForDeps |-> FALSE, deps |-> deps, step |-> "new",
     variations |-> << >>]

\* the modules mctx.VisitDirectDeps visits for module x, as they are now
ChainDirectDeps(x) ==
    [i \in 1..Len(chain[x].deps) |->
        [isApexModule |-> TRUE,
         apexVariations |-> chain[chain[x].deps[i]].apexVariations,
         UniqueApexVariations |-> chain[chain[x].deps[i]].UniqueApexVariations,
         UniqueApexVariationsForDeps |->
            chain[chain[x].deps[i]].UniqueApexVariationsForDeps]]

\* a bottom-up mutator visits a module after its dependencies
DepsBeyond(x, step) ==
    \A i \in 1..Len(chain[x].deps) : chain[chain[x].deps[i]].step # step

\* x.UpdateUniqueApexVariationsForDeps(mctx)
Chain_UpdateUniqueApexVariationsForDeps(x) ==
    /\ chain[x].step = "new"
    /\ DepsBeyond(x, "new")
    /\ chain' = [chain EXCEPT
                   ![x].UniqueApexVariationsForDeps =
                       VisitDirectDeps(@, chain[x].apexVariations, ChainDirectDeps(x)),
                   ![x].step = "updated"]
    /\ UNCHANGED notChainVars

\* the labels CreateApexVariations hands to CreateVariations for module m
\* (none when it has no requirement)
ChainVariations(m) ==
    IF ~HasApexVariations(m.apexVariations) THEN { << >> }
    ELSE IF ShouldMerge(m.UniqueApexVariations, m.UniqueApexVariationsForDeps)
         THEN UNION { { Variations(sorted) :
                          sorted \in SortOutcomes(mergeApexVariations(sortedIn).merged) } :
                      sortedIn \in SortOutcomes(m.apexVariations) }
         ELSE { Variations(sorted) : sorted \in SortOutcomes(m.apexVariations) }

\* x.CreateApexVariations(mctx), as far as the labels: its mutator runs when
\* the one before it has visited every module
Chain_CreateApexVariations(x) ==
    /\ \A y \in ChainModules : chain[y].step # "new"
    /\ chain[x].step = "updated"
    /\ DepsBeyond(x, "updated")
    /\ \E labels \in ChainVariations(chain[x]) :
         chain' = [chain EXCEPT ![x].variations = labels, ![x].step = "created"]
    /\ UNCHANGED notChainVars

InitChain ==
    /\ RegistryIdle /\ MergeIdle /\ BuildIdle /\ ChooseIdle
    /\ AvailIdle /\ UniqueIdle /\ WalkIdle
    /\ \E vA, vB, vC \in DepVariations, uA, uB, uC \in BOOLEAN,
          dA \in { << >>, << "B" >>, << "C" >>, << "B", "C" >>, << "C", "B" >> },
          dB \in { << >>, << "C" >> } :
         chain = ("A" :> ChainModule(vA, uA, dA))
                   @@ ("B" :> ChainModule(vB, uB, dB))
                   @@ ("C" :> ChainModule(vC, uC, << >>))

NextChain ==
    \E x \in ChainModules :
        \/ Chain_UpdateUniqueApexVariationsForDeps(x)
        \/ Chain_CreateApexVariations(x)

SpecChain == InitChain /\ [][NextChain]_vars

(***************************************************************************)
(* CheckMinSdkVersion: the walk over the payload dependencies of an        *)
(* updatable module m.                                                     *)
(***************************************************************************)
\* entries of minSdkVersionAllowlist: one per grandfathered level
minSdkVersionAllowlist == ("xz-java" :> 29) @@ ("statsd" :> 30)

\* ctx.OtherModuleName(to): two names of the allow-list and one that is not in it
DepNames == { "xz-java", "statsd", "libfoo" }

\* the levels CheckMinSdkVersion is called with: two finalized ones and current
MinSdkVersions == { 29, 30, FutureApiLevelInt }

\* ApiLevel.IsCurrent
IsCurrent(level) == level = FutureApiLevelInt

\* ApiLevel.GreaterThan
GreaterThan(level, other) == level > other

\* the module CheckMinSdkVersion is called on, and its possible dependencies
PayloadRoot == "m"

PayloadDeps == { "A", "B" }

\* whether ctx and minSdkVersion make CheckMinSdkVersion enforce anything,
\* with the clang coverage test left out
EnforcedDespiteClangCoverage(ctx, minSdkVersion) ==
    /\ ~ctx.Host
    /\ ~(ctx.EMMA_INSTRUMENT \/ ctx.NativeCoverageEnabled)
    /\ ~IsCurrent(minSdkVersion)

\* the three early returns of CheckMinSdkVersion are not taken
Enforced(ctx, minSdkVersion) ==
    /\ ~ctx.Host
    /\ ~(ctx.EMMA_INSTRUMENT \/ ctx.NativeCoverageEnabled \/ ctx.ClangCoverageEnabled)
    /\ ~IsCurrent(minSdkVersion)

\* the allow-list test with the level ignored
AllowlistedAtAnyLevel(toName, minSdkVersion) ==
    toName \in DOMAIN minSdkVersionAllowlist

\* ver, ok := minSdkVersionAllowlist[toName]; ok && !ver.GreaterThan(minSdkVersion)
Allowlisted(toName, minSdkVersion) ==
    /\ toName \in DOMAIN minSdkVersionAllowlist
    /\ ~GreaterThan(minSdkVersionAllowlist[toName], minSdkVersion)

\* the callback without its test of externalDep
PayloadDepsCallbackNoExternalTest(graph, edge, minSdkVersion) ==
    IF ~edge.depIsInSameApex
    THEN [visit |-> FALSE, error |-> FALSE]
    ELSE IF ~graph.supports[edge.to] /\ ~Allowlisted(graph.name[edge.to], minSdkVersion)
         THEN [visit |-> FALSE, error |-> TRUE]
         ELSE [visit |-> TRUE, error |-> FALSE]

\* The callback CheckMinSdkVersion hands to WalkPayloadDeps, called for the edge
\* from -> to: whether to visit to, and whether OtherModuleErrorf was called.
\* depIsInSameApex is false when from is a DepIsInSameApex that says no;
\* supports is whether to.ShouldSupportSdkVersion returned nil.
PayloadDepsCallback(graph, edge, minSdkVersion) ==
    IF edge.externalDep
    THEN [visit |-> FALSE, error |-> FALSE]
    ELSE IF ~edge.depIsInSameApex
         THEN [visit |-> FALSE, error |-> FALSE]
         ELSE IF ~graph.supports[edge.to]
                   /\ ~Allowlisted(graph.name[edge.to], minSdkVersion)
              THEN [visit |-> FALSE, error |-> TRUE]
              ELSE [visit |-> TRUE, error |-> FALSE]

\* CheckMinSdkVersion(m, ctx, minSdkVersion) up to the call of WalkPayloadDeps
CheckMinSdkVersion_Begin ==
    /\ wpc = "idle"
    /\ \E ctx \in [Host : BOOLEAN, EMMA_INSTRUMENT : BOOLEAN,
                    NativeCoverageEnabled : BOOLEAN, ClangCoverageEnabled : BOOLEAN],
          minSdkVersion \in MinSdkVersions :
        /\ wCtx' = ctx
        /\ wMinSdkVersion' = minSdkVersion
        /\ IF Enforced(ctx, minSdkVersion)
           THEN /\ wpc' = "walk"
                /\ wPending' = wGraph.deps[PayloadRoot]
           ELSE /\ wpc' = "done"
                /\ wPending' = << >>
    /\ UNCHANGED << wGraph, wWalked, wCalls, wErrors, notWalkVars >>

\* WalkPayloadDeps hands the next edge to the callback and descends into the
\* target when the callback says so and the target was not walked before
WalkPayloadDeps_Visit ==
    /\ wpc = "walk"
    /\ wPending # << >>
    /\ LET edge == Head(wPending)
           r == PayloadDepsCallback(wGraph, edge, wMinSdkVersion)
       IN  /\ wCalls' = Append(wCalls, [edge |-> edge, visit |-> r.visit])
           /\ wErrors' = IF r.error
                         THEN Append(wErrors, [to |-> edge.to, call |-> Len(wCalls) + 1])
                         ELSE wErrors
           /\ IF r.visit /\ edge.to \notin wWalked
              THEN /\ wPending' = wGraph.deps[edge.to] \o Tail(wPending)
                   /\ wWalked' = wWalked \cup { edge.to }
              ELSE /\ wPending' = Tail(wPending)
                   /\ wWalked' = wWalked
    /\ UNCHANGED << wCtx, wMinSdkVersion, wGraph, wpc, notWalkVars >>

\* WalkPayloadDeps and CheckMinSdkVersion return
WalkPayloadDeps_Return ==
    /\ wpc = "walk"
    /\ wPending = << >>
    /\ wpc' = "done"
    /\ UNCHANGED << wCtx, wMinSdkVersion, wGraph, wPending, wWalked, wCalls,
                    wErrors, notWalkVars >>

\* no edge, or one edge from -> to
EdgeChoices(from, to) ==
    { << >> } \cup
    { << [from |-> from, to |-> to, externalDep |-> x, depIsInSameApex |-> s] >> :
        x \in BOOLEAN, s \in BOOLEAN }

\* the payload dependencies of m: m -> A, m -> B and A -> B, each present or
\* not, over targets of any name that do or do not support the level
InitWalk ==
    /\ RegistryIdle /\ MergeIdle /\ BuildIdle /\ ChooseIdle
    /\ AvailIdle /\ UniqueIdle /\ ChainIdle
    /\ wCtx = [Host |-> FALSE, EMMA_INSTRUMENT |-> FALSE,
               NativeCoverageEnabled |-> FALSE, ClangCoverageEnabled |-> FALSE]
    /\ wMinSdkVersion = 0
    /\ \E ma \in EdgeChoices(PayloadRoot, "A"), mb \in EdgeChoices(PayloadRoot, "B"),
          ab \in EdgeChoices("A", "B") :
       \E name \in [PayloadDeps -> DepNames], supports \in [PayloadDeps -> BOOLEAN] :
          wGraph = [deps |-> (PayloadRoot :> (ma \o mb)) @@ ("A" :> ab) @@ ("B" :> << >>),
                    name |-> name, supports |-> supports]
    /\ wpc = "idle"
    /\ wPending = << >>
    /\ wWalked = {}
    /\ wCalls = << >>
    /\ wErrors = << >>

NextWalk ==
    \/ CheckMinSdkVersion_Begin
    \/ WalkPayloadDeps_Visit
    \/ WalkPayloadDeps_Return

SpecWalk == InitWalk /\ [][NextWalk]_vars

(***************************************************************************)
(* Claims about CheckAvailableForApex.                                     *)
(***************************************************************************)
\* the name starts with "com.android.gki."
IsGkiName(name) ==
    \E k \in 0..Len(name) :
        SubSeq(name, 1, k) =
          << "c", "o", "m", ".", "a", "n", "d", "r", "o", "i", "d", ".", "g", "k", "i", "." >>

\* C12: CheckAvailableForApex returns, for an empty list, whether the target is
\* the platform sentinel, and otherwise whether the target is in the list, or
\* is not the platform sentinel while the any-apex wildcard is in the list, or
\* starts with "com.android.gki." while the GKI wildcard is in the list; the
\* any-apex wildcard alone never makes the platform sentinel available.
C12_CheckAvailableForApex ==
    aCalled =>
        /\ aRet \in BOOLEAN
        /\ aRet <=>
             IF aApexAvailable = << >>
             THEN aWhat = AvailableToPlatform
             ELSE \/ \E i \in 1..Len(aApexAvailable) : aApexAvailable[i] = aWhat
                  \/ /\ aWhat # AvailableToPlatform
                     /\ \E i \in 1..Len(aApexAvailable) :
                          aApexAvailable[i] = AvailableToAnyApex
                  \/ /\ IsGkiName(aWhat)
                     /\ \E i \in 1..Len(aApexAvailable) :
                          aApexAvailable[i] = AvailableToGkiApex
        /\ (aWhat = AvailableToPlatform /\ Range(aApexAvailable) = { AvailableToAnyApex })
              => ~aRet

\* C12 witness: the platform sentinel was asked about with the any-apex
\* wildcard alone in the list, and the answer was no.
C12_Witness ==
    /\ aCalled
    /\ aWhat = AvailableToPlatform
    /\ aApexAvailable = << AvailableToAnyApex >>
    /\ ~aRet

(***************************************************************************)
(* Claims about UpdateUniqueApexVariationsForDeps.                         *)
(***************************************************************************)
\* the bundle names in the InApexes lists of the accumulated requirements
BundlesOf(apexVars) ==
    UNION { Range(apexVars[i].InApexes) : i \in 1..Len(apexVars) }

\* the direct dependency makes the module need unique variations
Propagates(dep, mVariations) ==
    /\ dep.isApexModule
    /\ BundlesOf(dep.apexVariations) \cap BundlesOf(mVariations) # {}
    /\ (dep.UniqueApexVariations \/ dep.UniqueApexVariationsForDeps)

\* C16: UpdateUniqueApexVariationsForDeps leaves the flag true exactly when it
\* was true before or some direct dependency that is an ApexModule shares a
\* bundle name with the module and has unique variations itself or its own
\* flag set; it changes neither the dependencies nor the accumulated set.
C16_UniquePropagation ==
    [][UpdateUniqueApexVariationsForDeps =>
          /\ UniqueApexVariationsForDeps' <=>
                \/ UniqueApexVariationsForDeps
                \/ \E i \in 1..Len(directDeps) : Propagates(directDeps[i], apexVariations)
          /\ directDeps' = directDeps
          /\ apexVariations' = apexVariations]_vars

\* C16 witness: the flag is set after the call, and the one dependency that
\* propagates it shares a bundle with the module only through InApexes.
C16_Witness ==
    /\ uCalled
    /\ UniqueApexVariationsForDeps
    /\ Len(directDeps) = 2
    /\ ~Propagates(directDeps[1], apexVariations)
    /\ Propagates(directDeps[2], apexVariations)
    /\ ~anyInSameApexByName(directDeps[2].apexVariations, apexVariations)

(***************************************************************************)
(* Claims about CheckMinSdkVersion.                                        *)
(***************************************************************************)
\* the OtherModuleErrorf calls made by the i-th callback invocation
ErrorsOf(i) == { k \in 1..Len(wErrors) : wErrors[k].call = i }

\* the callback invocation is for a non-external, same-APEX edge whose target
\* does not support the required level
Unsupported(c) ==
    /\ ~c.edge.externalDep
    /\ c.edge.depIsInSameApex
    /\ ~wGraph.supports[c.edge.to]

\* C13 as stated: at a non-external, same-APEX edge whose target does not
\* support the required level, one error is reported and the target is not
\* visited, unless the target's name is in the allow-list with a level >= the
\* required level; then no error is reported and the walk goes into the target.
C13_ExemptWhenListedLevelAtLeastRequired ==
    \A i \in 1..Len(wCalls) :
        Unsupported(wCalls[i]) =>
            LET toName == wGraph.name[wCalls[i].edge.to]
                exempt == /\ toName \in DOMAIN minSdkVersionAllowlist
                          /\ minSdkVersionAllowlist[toName] >= wMinSdkVersion
            IN  IF exempt
                THEN /\ ErrorsOf(i) = {}
                     /\ wCalls[i].visit
                     /\ wCalls[i].edge.to \in wWalked
                ELSE /\ Cardinality(ErrorsOf(i)) = 1
                     /\ ~wCalls[i].visit

\* C13 amended: the same with the exemption for a name that is in the
\* allow-list with a level <= the required level.
C13_ExemptWhenListedLevelAtMostRequired ==
    \A i \in 1..Len(wCalls) :
        Unsupported(wCalls[i]) =>
            LET toName == wGraph.name[wCalls[i].edge.to]
                exempt == /\ toName \in DOMAIN minSdkVersionAllowlist
                          /\ minSdkVersionAllowlist[toName] <= wMinSdkVersion
            IN  IF exempt
                THEN /\ ErrorsOf(i) = {}
                     /\ wCalls[i].visit
                     /\ wCalls[i].edge.to \in wWalked
                ELSE /\ Cardinality(ErrorsOf(i)) = 1
                     /\ ~wCalls[i].visit

\* C13 witness: a walk for level 30 went into a dependency that does not
\* support it and is grandfathered at 29, and reported the dependency below
\* it, which does not support the level and is not in the allow-list.
C13_Witness ==
    /\ wpc = "done"
    /\ wMinSdkVersion = 30
    /\ Len(wCalls) = 2
    /\ Unsupported(wCalls[1]) /\ wGraph.name[wCalls[1].edge.to] = "xz-java"
    /\ wCalls[1].visit
    /\ Unsupported(wCalls[2]) /\ wGraph.name[wCalls[2].edge.to] = "libfoo"
    /\ Len(wErrors) = 1

\* C14: in a host build, with EMMA_INSTRUMENT, native coverage or clang
\* coverage enabled, or for a level that is not finalized, CheckMinSdkVersion
\* starts no walk, invokes no callback and reports no error, whatever the
\* dependencies are.
C14_NoOpWhenNotEnforced ==
    (/\ wpc # "idle"
     /\ \/ wCtx.Host
        \/ wCtx.EMMA_INSTRUMENT
        \/ wCtx.NativeCoverageEnabled
        \/ wCtx.ClangCoverageEnabled
        \/ wMinSdkVersion = FutureApiLevelInt) =>
        /\ wpc = "done"
        /\ wPending = << >>
        /\ wWalked = {}
        /\ wCalls = << >>
        /\ wErrors = << >>

\* C14 witness: with only clang coverage enabled the call returned without a
\* walk although a direct dependency would have been reported.
C14_Witness ==
    /\ wpc = "done"
    /\ wCtx = [Host |-> FALSE, EMMA_INSTRUMENT |-> FALSE,
               NativeCoverageEnabled |-> FALSE, ClangCoverageEnabled |-> TRUE]
    /\ wMinSdkVersion = 29
    /\ \E i \in 1..Len(wGraph.deps[PayloadRoot]) :
         LET edge == wGraph.deps[PayloadRoot][i]
         IN  /\ ~edge.externalDep /\ edge.depIsInSameApex
             /\ ~wGraph.supports[edge.to]
             /\ wGraph.name[edge.to] = "libfoo"
    /\ wCalls = << >>

\* C15: no error is reported for a target reached over an external edge or
\* over an edge whose source says the target is not in the same APEX, and
\* the callback answers not to visit it; a direct, same-APEX, non-external
\* dependency that does not support the level and is not in the allow-list
\* gets exactly one error.
C15_ExternalEdgesNotChecked ==
    \A i \in 1..Len(wCalls) :
        LET edge == wCalls[i].edge
        IN  /\ (edge.externalDep \/ ~edge.depIsInSameApex) =>
                  /\ ErrorsOf(i) = {}
                  /\ ~wCalls[i].visit
            /\ (/\ edge.from = PayloadRoot
                 /\ Unsupported(wCalls[i])
                 /\ wGraph.name[edge.to] \notin DOMAIN minSdkVersionAllowlist) =>
                  /\ Cardinality(ErrorsOf(i)) = 1
                  /\ \A k \in ErrorsOf(i) : wErrors[k].to = edge.to

\* C15 witness: the only dependency of m, external, unsupported and not in
\* the allow-list, was handed to the callback and nothing was reported.
C15_Witness ==
    /\ wpc = "done"
    /\ Len(wCalls) = 1
    /\ wCalls[1].edge.externalDep
    /\ wCalls[1].edge.depIsInSameApex
    /\ ~wGraph.supports[wCalls[1].edge.to]
    /\ wGraph.name[wCalls[1].edge.to] = "libfoo"
    /\ wErrors = << >>
    /\ wWalked = {}

(***************************************************************************)
(* Claims about ChooseSdkVersion.                                          *)
(***************************************************************************)
\* the versions of the list that parse and are no higher than the ceiling
Qualifying(versionList, maxSdkVersion) ==
    { v \in Range(versionList) : Parses(v) /\ LevelOf(v) <= maxSdkVersion }

\* C10: when every entry parses and some entry's level is <= maxSdkVersion,
\* ChooseSdkVersion returns the highest version of the list whose level is
\* <= maxSdkVersion, an element of the list.
C10_ChoosesHighest ==
    (/\ cCalled
     /\ \A v \in Range(cVersionList) : Parses(v)
     /\ Qualifying(cVersionList, cMaxSdkVersion) # {}) =>
        /\ cRet.err = NoError
        /\ cRet.version \in Range(cVersionList)
        /\ cRet.version \in Qualifying(cVersionList, cMaxSdkVersion)
        /\ \A v \in Qualifying(cVersionList, cMaxSdkVersion) :
             LevelOf(v) <= LevelOf(cRet.version)

\* C11: ChooseSdkVersion returns an error and no version whenever no
\* candidate's level is <= maxSdkVersion (an empty list included) and whenever
\* some candidate of the list does not parse, wherever it stands in the list.
C11_FailsOnAnyBadCandidate ==
    (/\ cCalled
     /\ \/ Qualifying(cVersionList, cMaxSdkVersion) = {}
        \/ \E v \in Range(cVersionList) : ~Parses(v)) =>
        /\ cRet.err # NoError
        /\ cRet.version = << >>

(***************************************************************************)
(* Claims about mergeApexVariations.                                       *)
(***************************************************************************)
NoDuplicates(list) == \A i, j \in 1..Len(list) : i # j => list[i] # list[j]

\* the input requirements folded into the merged entry named key
FoldedInto(key, input) == { r \in Range(input) : mergedName(r) = key }

\* C3: the InApexes of each merged entry equals, as a duplicate-free set, the
\* union of the InApexes lists of all input requirements with that merge key.
C3_MergedInApexesIsUnion ==
    mCalls = 1 =>
        \A i \in 1..Len(mMerged) :
            /\ NoDuplicates(mMerged[i].InApexes)
            /\ Range(mMerged[i].InApexes) =
                 UNION { Range(r.InApexes) :
                           r \in FoldedInto(mMerged[i].ApexVariationName, mIn) }

\* C4: the merged output is no longer than the input and has one entry per
\* distinct merge key; the alias list has one pair (original variation name,
\* merge key) per input requirement, the representative of a group included.
C4_MergeLengths ==
    mCalls >= 1 =>
        /\ Len(mMerged) <= Len(mIn)
        /\ Len(mMerged) = Cardinality({ mergedName(r) : r \in Range(mIn) })
        /\ Len(mAliases) = Len(mIn)
        /\ \A i \in 1..Len(mIn) :
             mAliases[i] = << mIn[i].ApexVariationName, mergedName(mIn[i]) >>

\* C4 witness: three requirements folded into two entries.
C4_Witness ==
    mCalls = 1 /\ Len(mIn) = 3 /\ Len(mMerged) = 2 /\ Len(mAliases) = 3

\* C18: the InApexes lists of the merged entries partition the bundle names
\* of the input: every bundle name of an InApexes list of the input is in the
\* InApexes of some merged entry, and none is in the InApexes of two.
C18_InApexesPartition ==
    mCalls = 1 =>
        /\ \A i \in 1..Len(mIn) : \A b \in Range(mIn[i].InApexes) :
              \E j \in 1..Len(mMerged) : b \in Range(mMerged[j].InApexes)
        /\ \A j, k \in 1..Len(mMerged) :
              j # k => Range(mMerged[j].InApexes) \cap Range(mMerged[k].InApexes) = {}

\* C19: mergeApexVariations leaves the caller's sequence as it was, with the
\* same elements in the same order.
C19_MergeLeavesInputAlone ==
    [][MergeCall => mIn' = mIn]_vars

\* equality of two entries up to the order inside InApexes
SameUpToInApexesOrder(x, y) ==
    /\ [x EXCEPT !.InApexes = << >>] = [y EXCEPT !.InApexes = << >>]
    /\ Len(x.InApexes) = Len(y.InApexes)
    /\ Range(x.InApexes) = Range(y.InApexes)

AliasesAreIdentity == \A i \in 1..Len(mAliases) : mAliases[i][1] = mAliases[i][2]

\* C8 as stated: merging the merged sequence returns the same entries in the
\* same order (up to the order inside InApexes) and only identity aliases.
C8_MergeIdempotentSameOrder ==
    mCalls = 2 =>
        /\ Len(mMerged) = Len(mPrev)
        /\ \A i \in 1..Len(mMerged) : SameUpToInApexesOrder(mMerged[i], mPrev[i])
        /\ AliasesAreIdentity

\* C8 amended: merging the merged sequence returns the same entries, each
\* unchanged, in ascending order of variation name, and only identity aliases.
C8_MergeIdempotentSorted ==
    mCalls = 2 =>
        /\ mMerged \in SortOutcomes(mPrev)
        /\ Len(mAliases) = Len(mPrev)
        /\ AliasesAreIdentity

\* C8 witness: a second merge that returned its entries in another order than
\* the first merge had.
C8_Witness ==
    mCalls = 2 /\ Len(mMerged) >= 2 /\ mMerged # mPrev


(***************************************************************************)
(* Claims about the registry.                                              *)
(***************************************************************************)
\* every entry of reg is still there in reg2, and a true entry is still true
NoEntryLostOrDowngraded(reg, reg2) ==
    \A m \in DOMAIN reg :
        /\ m \in DOMAIN reg2
        /\ \A b \in DOMAIN reg[m] :
             /\ b \in DOMAIN reg2[m]
             /\ reg[m][b] => reg2[m][b]

\* C1: an UpdateApexDependency call never changes an entry that is true
\* (direct) back to false and never removes an entry.
C1_RegistryMonotonic ==
    [][(\E t \in Threads : UpdateApexDependency(t))
          => NoEntryLostOrDowngraded(registry, registry')]_vars

\* C2: two UpdateApexDependency calls on the same module, applied to the same
\* registry in either order, leave the same registry.
C2_UpdateOrderIndependent ==
    \A moduleName \in ModuleNames, a1 \in RegistryInfos, a2 \in RegistryInfos,
       d1 \in BOOLEAN, d2 \in BOOLEAN :
        UpdatedRegistry(UpdatedRegistry(registry, a1, moduleName, d1), a2, moduleName, d2)
          = UpdatedRegistry(UpdatedRegistry(registry, a2, moduleName, d2), a1, moduleName, d1)

\* C9: no two registry operations are inside the map at the same time, each
\* being inside it only while holding apexNamesMapMutex.
C9_RegistryMutualExclusion ==
    \A t \in Threads, u \in Threads :
        (t # u /\ rpc[t] # "idle") => rpc[u] = "idle"


\* the registry the claim describes after UpdateApexDependency(apex, moduleName,
\* directDep): each bundle named gets its own previous flag OR directDep
UpdatedAsClaimed(reg, apex, moduleName, directDep) ==
    LET old == IF moduleName \in DOMAIN reg THEN reg[moduleName] ELSE EmptyMap
        named == { apex.ApexVariationName } \cup Range(apex.InApexes)
    IN  [x \in (DOMAIN reg) \cup { moduleName } |->
            IF x = moduleName
            THEN [b \in (DOMAIN old) \cup named |->
                    IF b \in named THEN MapGet(old, b) \/ directDep ELSE old[b]]
            ELSE reg[x]]

\* C20: UpdateApexDependency(apex, module, directDep) sets the flag of the
\* variation name and of every bundle of apex.InApexes to that bundle's own
\* previous flag OR directDep, whatever the flag of the variation name is,
\* and leaves every other entry as it was.
C20_UpdateIsPerBundleOr ==
    \A apex \in RegistryInfos, moduleName \in ModuleNames, directDep \in BOOLEAN :
        UpdatedRegistry(registry, apex, moduleName, directDep)
          = UpdatedAsClaimed(registry, apex, moduleName, directDep)

\* C17: when ClearApexDependency returns, whatever UpdateApexDependency calls
\* came before it, the registry holds no entries: DirectlyInApex,
\* DirectlyInAnyApex and InAnyApex are false for every module and bundle,
\* GetApexesForModule is empty, and an UpdateApexDependency call then gives
\* what it gives on a registry just created.
C17_ClearEmptiesRegistry ==
    [][ClearApexDependency_Return(1) =>
          /\ DOMAIN registry' = {}
          /\ \A moduleName \in ModuleNames :
               /\ \A apexName \in Bundles : ~DirectlyInApex(registry', apexName, moduleName)
               /\ ~DirectlyInAnyApex(registry', FALSE, moduleName)
               /\ ~InAnyApex(registry', moduleName)
               /\ GetApexesForModule(registry', moduleName) = { << >> }
               /\ \A apex \in RegistryInfos, directDep \in BOOLEAN :
                    /\ UpdatedRegistry(registry', apex, moduleName, directDep)
                         = UpdatedRegistry(EmptyMap, apex, moduleName, directDep)
                    /\ DirectlyInApex(UpdatedRegistry(registry', apex, moduleName, directDep),
                                      apex.ApexVariationName, moduleName) = directDep
      ]_vars

\* C17 witness: ClearApexDependency, called on a registry that held entries
\* for both modules, one of them direct, has deleted one module and has the
\* other still to delete.
C17_Witness ==
    /\ rpc[1] = "ClearApexDependency"
    /\ Cardinality(DOMAIN registry) = 1
    /\ clearLeft[1] = DOMAIN registry
    /\ \E moduleName \in DOMAIN registry : DirectlyInAnyApex(registry, FALSE, moduleName)
    /\ \A t \in Threads : t # 1 => rpc[t] = "idle"

(***************************************************************************)
(* Claims about BuildForApex and CreateApexVariations.                     *)
(***************************************************************************)
VariationNames(apexVars) ==
    { apexVars[i].ApexVariationName : i \in 1..Len(apexVars) }

MergeKeys(apexVars) == { mergedName(apexVars[i]) : i \in 1..Len(apexVars) }

EligibleForMerging == ~uniqueApexVariations /\ ~UniqueApexVariationsForDeps

\* the positions in mctxLog of the calls of op
CallsAt(op) == { i \in 1..Len(mctxLog) : mctxLog[i].op = op }

\* C5: a module with a non-empty accumulated set that is eligible for merging
\* gets exactly 1 + k variants, k the number of distinct merge keys: a platform
\* variant with the empty variation name and one per merged requirement; three
\* requirements with one merge key give two variants, and the APEX variant's
\* InApexes holds the three bundle names.
C5_VariantCount ==
    (phase = "done" /\ Len(apexVariations) > 0 /\ EligibleForMerging) =>
        /\ modules # Nil
        /\ Len(modules) = 1 + Cardinality(MergeKeys(apexVariations))
        /\ modules[1].Info.ApexVariationName = << >>
        /\ \A i \in 2..Len(modules) :
             modules[i].Info.ApexVariationName \in MergeKeys(apexVariations)
        /\ (Len(apexVariations) = 3 /\ Cardinality(MergeKeys(apexVariations)) = 1) =>
              /\ Len(modules) = 2
              /\ VariationNames(apexVariations) \subseteq Range(modules[2].Info.InApexes)

\* C5 witness: three requirements with one merge key were turned into two variants.
C5_Witness ==
    /\ phase = "done"
    /\ EligibleForMerging
    /\ Len(apexVariations) = 3
    /\ Cardinality(MergeKeys(apexVariations)) = 1
    /\ Len(modules) = 2

\* C6: the labels handed to CreateVariations are the empty label followed by
\* the variation names in strictly ascending order (so pairwise distinct and
\* none empty), and the empty label was set as the default dependency
\* variation before the variants were created.
C6_LabelsSorted ==
    (phase = "done" /\ Len(apexVariations) > 0) =>
        /\ Cardinality(CallsAt("CreateVariations")) = 1
        /\ Cardinality(CallsAt("SetDefaultDependencyVariation")) = 1
        /\ \A c \in CallsAt("CreateVariations") :
             LET labels == mctxLog[c].arg
             IN  /\ Len(labels) = Len(modules)
                 /\ labels[1] = << >>
                 /\ \A i \in 2..Len(labels) : labels[i] # << >>
                 /\ \A i \in 2..(Len(labels) - 1) : StrLess(labels[i], labels[i + 1])
                 /\ \A d \in CallsAt("SetDefaultDependencyVariation") :
                      d < c /\ mctxLog[d].arg = << >>

\* C6 witness: four labels, the empty one and three variation names, were
\* handed to CreateVariations.
C6_Witness ==
    /\ phase = "done"
    /\ Len(modules) = 4
    /\ \E c \in CallsAt("CreateVariations") : Len(mctxLog[c].arg) = 4
    /\ requested = Bundles

C7_Invariant ==
    /\ DistinctNames(apexVariations)
    /\ VariationNames(apexVariations) \subseteq requested
    /\ (\A t \in Threads : bpc[t] = "idle") => VariationNames(apexVariations) = requested

C7_Step ==
    phase = "collect" =>
        \/ apexVariations' = apexVariations
        \/ \E t \in Threads :
            /\ bpc[t] = "append"
            /\ barg[t].ApexVariationName \notin VariationNames(apexVariations)
            /\ apexVariations' = Append(apexVariations, barg[t])

\* C7: under every interleaving of concurrent BuildForApex calls the
\* accumulated set never holds two entries with one name and, once the calls
\* have returned, holds exactly one entry per name requested; a call whose
\* name is already present leaves the set unchanged, and a call only ever
\* appends its own ApexInfo (no entry is removed, changed or reordered).
C7_BuildForApexIdempotent == []C7_Invariant /\ [][C7_Step]_vars

\* C7 witness: a call for a name that is already present, with other contents,
\* is inside BuildForApex.
C7_Witness ==
    /\ phase = "collect"
    /\ Len(apexVariations) = 2
    /\ \E t \in Threads :
        /\ bpc[t] = "scan"
        /\ barg[t].ApexVariationName = apexVariations[1].ApexVariationName
        /\ barg[t] # apexVariations[1]

\* the labels handed to CreateVariations
CreatedLabels == mctxLog[CHOOSE c \in CallsAt("CreateVariations") : TRUE].arg

\* the pairs handed to CreateAliasVariation, in call order
RegisteredAliases ==
    LET calls == SelectSeq(mctxLog, LAMBDA c : c.op = "CreateAliasVariation")
    IN  [i \in 1..Len(calls) |-> calls[i].arg]

\* C21: CreateApexVariations skips merging exactly when the module's
\* UniqueApexVariations() is true or its UniqueApexVariationsForDeps flag is
\* set: then there is one APEX variant per accumulated requirement, labelled
\* with the original variation name and carrying the registered ApexInfo
\* unchanged, and no alias is registered; otherwise the variants are those of
\* mergeApexVariations, labelled with merge keys, with an alias per requirement.
C21_MergingSkippedWhenUnique ==
    (phase = "done" /\ Len(apexVariations) > 0) =>
        IF uniqueApexVariations \/ UniqueApexVariationsForDeps
        THEN /\ Len(modules) = 1 + Len(apexVariations)
             /\ \A i \in 1..Len(apexVariations) :
                  /\ modules[i + 1].Info = apexVariations[i]
                  /\ CreatedLabels[i + 1] = apexVariations[i].ApexVariationName
             /\ CallsAt("CreateAliasVariation") = {}
        ELSE /\ Len(modules) = 1 + Cardinality(MergeKeys(apexVariations))
             /\ \A i \in 2..Len(modules) :
                  /\ CreatedLabels[i] \in MergeKeys(apexVariations)
                  /\ modules[i].Info.ApexVariationName = CreatedLabels[i]
             /\ Len(RegisteredAliases) = Len(apexVariations)

\* C21 witness: a module that does not declare UniqueApexVariations but had the
\* flag set by a dependency kept two requirements with one merge key apart.
C21_Witness ==
    /\ phase = "done"
    /\ ~uniqueApexVariations
    /\ UniqueApexVariationsForDeps
    /\ Len(apexVariations) = 2
    /\ Cardinality(MergeKeys(apexVariations)) = 1
    /\ Len(modules) = 3
    /\ CallsAt("CreateAliasVariation") = {}

\* the requirements in the order of the labels: the merged ones when the
\* module was eligible for merging, else the accumulated ones (both sorted;
\* CreateApexVariations leaves m.apexVariations sorted)
SortedRequirements ==
    IF EligibleForMerging
    THEN CHOOSE sorted \in SortOutcomes(mergeApexVariations(apexVariations).merged) : TRUE
    ELSE apexVariations

\* the availability list permits the platform sentinel
PlatformPermitted ==
    Apex_available = << >> \/ AvailableToPlatform \in Range(Apex_available)

\* C22: after CreateApexVariations the first variant has the empty
\* ApexVariationName (IsForPlatform), every other variant i has the i-th label
\* as its ApexVariationName and carries the requirement at sorted position
\* i-1; MakeUninstallable is called on the platform variant if and only if the
\* module is not a host module and its availability list does not permit the
\* platform sentinel, and never on another variant.
C22_VariantsMatchSlots ==
    (phase = "done" /\ Len(apexVariations) > 0) =>
        /\ IsForPlatform(modules[1].Info)
        /\ Len(modules) = Len(CreatedLabels)
        /\ Len(modules) = 1 + Len(SortedRequirements)
        /\ \A i \in 2..Len(modules) :
             /\ ~IsForPlatform(modules[i].Info)
             /\ modules[i].Info.ApexVariationName = CreatedLabels[i]
             /\ modules[i].Info = SortedRequirements[i - 1]
             /\ ~modules[i].uninstallable
        /\ modules[1].uninstallable <=> (~mctxHost /\ ~PlatformPermitted)
        /\ \A c \in CallsAt("MakeUninstallable") : mctxLog[c].arg = 1
        /\ Cardinality(CallsAt("MakeUninstallable")) =
              (IF ~mctxHost /\ ~PlatformPermitted THEN 1 ELSE 0)

\* C22 witness: a host module whose availability list names only a bundle got
\* a platform variant and two APEX variants, none made uninstallable.
C22_Witness ==
    /\ phase = "done"
    /\ Len(modules) = 3
    /\ mctxHost
    /\ ~PlatformPermitted
    /\ CallsAt("MakeUninstallable") = {}

\* C23: when merging happens, CreateApexVariations registers with mctx, after
\* the variants are created, exactly one alias for every requirement name that
\* was accumulated, from the original name to its merge key, and every alias
\* target is a label of a created variant.
C23_AliasPerRequirement ==
    (phase = "done" /\ Len(apexVariations) > 0 /\ EligibleForMerging) =>
        /\ \A a \in CallsAt("CreateAliasVariation") :
             \A c \in CallsAt("CreateVariations") : c < a
        /\ Len(RegisteredAliases) = Len(apexVariations)
        /\ \A i \in 1..Len(apexVariations) :
             LET named == { k \in 1..Len(RegisteredAliases) :
                              RegisteredAliases[k][1] = apexVariations[i].ApexVariationName }
             IN  /\ Cardinality(named) = 1
                 /\ \A k \in named :
                      RegisteredAliases[k][2] = mergedName(apexVariations[i])
        /\ \A k \in 1..Len(RegisteredAliases) :
             /\ RegisteredAliases[k][2] \in Range(CreatedLabels)
             /\ \E i \in 2..Len(modules) :
                  modules[i].Info.ApexVariationName = RegisteredAliases[k][2]

\* C23 witness: three requirements with two merge keys got three aliases, two
\* of them to the same variant.
C23_Witness ==
    /\ phase = "done"
    /\ EligibleForMerging
    /\ Len(apexVariations) = 3
    /\ Len(modules) = 3
    /\ Len(RegisteredAliases) = 3
    /\ \E j, k \in 1..3 : j # k /\ RegisteredAliases[j][2] = RegisteredAliases[k][2]

\* the names handed to PropertyErrorf, in call order
ReportedNames ==
    LET calls == SelectSeq(mctxLog, LAMBDA c : c.op = "PropertyErrorf")
    IN  [i \in 1..Len(calls) |-> calls[i].arg]

\* the entries of apex_available that are no sentinel and name no module
InvalidEntries ==
    SelectSeq(Apex_available,
              LAMBDA n : /\ n \notin { AvailableToPlatform, AvailableToAnyApex,
                                       AvailableToGkiApex }
                         /\ ~OtherModuleExists(n))

\* the aliases of the requirements when the module is eligible for merging
ExpectedAliases ==
    IF EligibleForMerging THEN mergeApexVariations(apexVariations).aliases ELSE << >>

\* C24: invalid apex_available names are fail-soft: one property error is
\* reported for exactly each entry that is none of the three sentinels and
\* names no existing module while missing-dependency tolerance is off, none
\* when it is on; with or without errors the same variants, requirements and
\* aliases are created (the calls other than PropertyErrorf and the variants
\* are those of a run that reports nothing).
C24_ValidationIsFailSoft ==
    (phase = "done" /\ Len(apexVariations) > 0) =>
        /\ ReportedNames = (IF mctxAllowMissing THEN << >> ELSE InvalidEntries)
        /\ \A e \in CallsAt("PropertyErrorf") :
             \A c \in 1..Len(mctxLog) : mctxLog[c].op # "PropertyErrorf" => e < c
        /\ SelectSeq(mctxLog, LAMBDA c : c.op # "PropertyErrorf") =
              MctxCalls(SortedRequirements, ExpectedAliases, mctxHost, TRUE,
                        Apex_available)
        /\ [i \in 1..Len(modules) |-> modules[i].Info] =
              << ZeroApexInfo >> \o SortedRequirements

\* C24 witness: two errors were reported for the two invalid entries of the
\* list, and a platform variant and two APEX variants were created.
C24_Witness ==
    /\ phase = "done"
    /\ ~mctxAllowMissing
    /\ Len(InvalidEntries) = 2
    /\ Len(ReportedNames) = 2
    /\ Len(modules) = 3

\* C25: with an empty accumulated set CreateApexVariations creates no
\* variants, registers no alias, sets no default dependency variation, does
\* not validate apex_available (no error is reported even for an invalid
\* entry) and returns no modules.
C25_EmptySetDoesNothing ==
    (phase = "done" /\ Len(apexVariations) = 0) =>
        /\ modules = Nil
        /\ mctxLog = << >>

\* C25 witness: CreateApexVariations returned on a module without requirements
\* whose apex_available list holds two invalid entries.
C25_Witness ==
    /\ phase = "done"
    /\ Len(apexVariations) = 0
    /\ requested = {}
    /\ Len(InvalidEntries) = 2
    /\ modules = Nil

(***************************************************************************)
(* Further claims about mergeApexVariations.                               *)
(***************************************************************************)
\* C26: a merged entry's Updatable is true if and only if some requirement
\* folded into it has Updatable true, and Updatable is not part of the merge
\* key (a requirement and the same requirement with the other Updatable
\* value have one merge key).
C26_UpdatableIsOr ==
    mCalls >= 1 =>
        /\ \A i \in 1..Len(mMerged) :
             mMerged[i].Updatable <=>
                \E r \in FoldedInto(mMerged[i].ApexVariationName, mIn) : r.Updatable
        /\ \A r \in Range(mIn) :
             mergedName([r EXCEPT !.Updatable = ~@]) = mergedName(r)

\* C26 witness: a requirement that is not updatable and a later one that is
\* were folded into one entry, which is updatable.
C26_Witness ==
    /\ mCalls = 1
    /\ Len(mIn) = 2
    /\ ~mIn[1].Updatable
    /\ mIn[2].Updatable
    /\ Len(mMerged) = 1
    /\ mMerged[1].Updatable

(***************************************************************************)
(* Determinism of CreateApexVariations with respect to registration order. *)
(***************************************************************************)
\* the sequences that hold the elements of s in some order
Orders(s) == { [i \in 1..Len(s) |-> s[p[i]]] : p \in Permutations(1..Len(s)) }

\* what CreateApexVariations produces: the labels, the ApexInfo of each APEX
\* variant and the set of alias pairs
Produced ==
    [labels |-> CreatedLabels,
     infos |-> [i \in 1..(Len(modules) - 1) |-> modules[i + 1].Info],
     aliases |-> Range(RegisteredAliases)]

\* what CreateApexVariations can produce on this module had the requirements
\* been accumulated as the sequence apexVars
Producible(apexVars) ==
    IF EligibleForMerging
    THEN UNION { { [labels |-> Variations(sorted), infos |-> sorted,
                    aliases |-> Range(mergeApexVariations(sortedIn).aliases)] :
                     sorted \in SortOutcomes(mergeApexVariations(sortedIn).merged) } :
                 sortedIn \in SortOutcomes(apexVars) }
    ELSE { [labels |-> Variations(sorted), infos |-> sorted, aliases |-> {}] :
             sorted \in SortOutcomes(apexVars) }

\* C27: for a fixed set of requirements with pairwise distinct variation
\* names, every order (so every interleaving of the BuildForApex calls) in
\* which they are accumulated leads CreateApexVariations to the same label
\* sequence, the same ApexInfo on each variant, the order of InApexes
\* included, and the same set of alias pairs.
C27_RegistrationOrderIrrelevant ==
    (phase = "done" /\ Len(apexVariations) > 0) =>
        \A order \in Orders(apexVariations) : Producible(order) = { Produced }

\* C27 witness: three requirements, accumulated by two goroutines, were merged
\* into two variants, one of them for two bundles.
C27_Witness ==
    /\ phase = "done"
    /\ EligibleForMerging
    /\ Len(apexVariations) = 3
    /\ Len(Produced.infos) = 2
    /\ \E i \in 1..2 : Len(Produced.infos[i].InApexes) = 2
    /\ Cardinality(Produced.aliases) = 3

(***************************************************************************)
(* Propagation of unique variations along a dependency chain.              *)
(***************************************************************************)
\* modules x and y are required by a common bundle
SharesBundle(x, y) ==
    BundlesOf(chain[x].apexVariations) \cap BundlesOf(chain[y].apexVariations) # {}

\* the labels of x are the empty label and its original variation names
SkippedMerging(x) ==
    /\ Len(chain[x].variations) = 1 + Len(chain[x].apexVariations)
    /\ chain[x].variations[1] = << >>
    /\ Range(Tail(chain[x].variations)) = VariationNames(chain[x].apexVariations)

\* C28: under the bottom-up processing order uniqueness propagates along
\* chains: if a depends on b and b on c, c declares UniqueApexVariations and
\* each adjacent pair shares a bundle, then once b and a are processed both
\* have UniqueApexVariationsForDeps set, and both skip merging.
C28_UniquenessPropagatesAlongChains ==
    \A a, b, c \in DOMAIN chain :
        ( /\ b \in Range(chain[a].deps)
          /\ c \in Range(chain[b].deps)
          /\ chain[c].UniqueApexVariations
          /\ SharesBundle(a, b)
          /\ SharesBundle(b, c) ) =>
            \A x \in { a, b } :
                /\ chain[x].step # "new" => chain[x].UniqueApexVariationsForDeps
                /\ chain[x].step = "created" => SkippedMerging(x)

\* C28 witness: A, which depends on B alone and declares nothing itself,
\* got the flag from B, which got it from C, and kept its two requirements
\* with one merge key apart.
C28_Witness ==
    /\ chain # << >>
    /\ \A x \in ChainModules : chain[x].step = "created"
    /\ chain["A"].deps = << "B" >>
    /\ chain["B"].deps = << "C" >>
    /\ chain["C"].UniqueApexVariations
    /\ ~chain["A"].UniqueApexVariations
    /\ ~chain["B"].UniqueApexVariations
    /\ SharesBundle("A", "B")
    /\ SharesBundle("B", "C")
    /\ chain["A"].UniqueApexVariationsForDeps
    /\ Len(chain["A"].apexVariations) = 2
    /\ Cardinality(MergeKeys(chain["A"].apexVariations)) = 1
    /\ Len(chain["A"].variations) = 3

(***************************************************************************)
(* The merge key.                                                          *)
(***************************************************************************)
\* the two requirements have the same numeric min SDK level and the same
\* RequiredSdks sequence
SameKeyComponents(a, b) ==
    /\ FinalOrFutureInt(a.MinSdkVersionStr) = FinalOrFutureInt(b.MinSdkVersionStr)
    /\ a.RequiredSdks = b.RequiredSdks

\* the requirements at i and j of the input went into one merged entry
FoldedTogether(i, j) == mAliases[i][2] = mAliases[j][2]

\* C29: mergeApexVariations folds two requirements into one merged entry if
\* and only if they have the same numeric min SDK level and the same
\* RequiredSdks sequence (same names and versions in the same order): the key
\* built by mergedName is equal for two requirements only when those
\* components are equal, also for SDK names and versions that contain "_".
C29_FoldsIffSameKeyComponents ==
    mCalls = 1 =>
        \A i, j \in 1..Len(mIn) :
            /\ FoldedTogether(i, j) <=> SameKeyComponents(mIn[i], mIn[j])
            /\ mergedName(mIn[i]) = mergedName(mIn[j]) =>
                  SameKeyComponents(mIn[i], mIn[j])

====
